---- MODULE Spec2Model ----
(***************************************************************************)
(* Review page of the document-verification front end (app.js):            *)
(* submitData / processDoc, renderReview (document list, extracted-text    *)
(* box, confidence panel) and the extracted-text Edit / Save handlers,     *)
(* including the date-of-birth normaliser parseDob of the Save handler;     *)
(* switchView over the elements of the page, buildUserFromUI over the      *)
(* inputs of the form and of the upload page, and submitToMOSIP.           *)
(*                                                                         *)
(* Text is modelled as a sequence of one-character strings, so that the    *)
(* regular expressions and the string formatting of the code are computed  *)
(* character by character.  Scores are exact rationals <<num, den>>; a     *)
(* number n in [0,1] of the code is the integer n * Scale over Scale.      *)
(***************************************************************************)
EXTENDS Integers, Sequences, FiniteSets, TLC

\* ------------------------------------------------------------------------
\* Bounds of the model
\* ------------------------------------------------------------------------
\* Largest number of numeric groups in a text given to parseDob.
MaxParts == 3
\* Largest number of documents selected, and of documents processed by the
\* invocations of submitData of a run.
MaxDocs == 2
\* Largest number of Save requests sent in a run.
MaxSaves == 1
\* Largest number of submitToMOSIP invocations that pass the first check.
MaxCalls == 1

\* Fixed-point unit of a score or confidence: 1.0 is Scale.
Scale == 1000000

\* ------------------------------------------------------------------------
\* Characters and numbers
\* ------------------------------------------------------------------------
DigitChars == <<"0", "1", "2", "3", "4", "5", "6", "7", "8", "9">>

DigitSet == {DigitChars[i] : i \in 1..10}

IsDigit(c) == c \in DigitSet

DigitValues == [c \in DigitSet |-> (CHOOSE i \in 1..10 : DigitChars[i] = c) - 1]

DigitVal(c) == DigitValues[c]

UpperChars == <<"A", "B", "C", "D", "E", "F", "G", "H", "I", "J", "K", "L", "M",
                "N", "O", "P", "Q", "R", "S", "T", "U", "V", "W", "X", "Y", "Z">>

LowerChars == <<"a", "b", "c", "d", "e", "f", "g", "h", "i", "j", "k", "l", "m",
                "n", "o", "p", "q", "r", "s", "t", "u", "v", "w", "x", "y", "z">>

\* String.prototype.toLowerCase, one character.
UpperSet == {UpperChars[i] : i \in 1..26}

LowerOf == [c \in UpperSet |-> LowerChars[CHOOSE i \in 1..26 : UpperChars[i] = c]]

ToLowerChar(c) == IF c \in UpperSet THEN LowerOf[c] ELSE c

toLowerCase(s) == [i \in 1..Len(s) |-> ToLowerChar(s[i])]

IsSpace(c) == c \in {" ", "\n", "\t"}

RECURSIVE TrimLeft(_)
TrimLeft(s) ==
    IF s = <<>> THEN <<>>
    ELSE IF IsSpace(Head(s)) THEN TrimLeft(Tail(s)) ELSE s

RECURSIVE TrimRight(_)
TrimRight(s) ==
    IF s = <<>> THEN <<>>
    ELSE IF IsSpace(s[Len(s)]) THEN TrimRight(SubSeq(s, 1, Len(s) - 1)) ELSE s

\* String.prototype.trim
trim(s) == TrimRight(TrimLeft(s))

\* Number(digits) of a non-empty string of decimal digits.
RECURSIVE NumberOf(_)
NumberOf(ds) ==
    IF ds = <<>> THEN 0
    ELSE 10 * NumberOf(SubSeq(ds, 1, Len(ds) - 1)) + DigitVal(ds[Len(ds)])

\* String(n) of a natural number.
RECURSIVE StringOf(_)
StringOf(n) ==
    IF n < 10 THEN <<DigitChars[n + 1]>>
    ELSE StringOf(n \div 10) \o <<DigitChars[(n % 10) + 1]>>

\* pad = (n) => String(n).padStart(2, '0')
pad(n) == IF Len(StringOf(n)) < 2 THEN <<"0">> \o StringOf(n) ELSE StringOf(n)

\* ------------------------------------------------------------------------
\* parseDob (Save handler of the extracted-text box)
\* ------------------------------------------------------------------------
\* Does /dob[^0-9]+/ match at position i of s ?
DobMatchAt(s, i) ==
    /\ i + 3 <= Len(s)
    /\ s[i] = "d" /\ s[i + 1] = "o" /\ s[i + 2] = "b"
    /\ ~IsDigit(s[i + 3])

\* Last position of the greedy run [^0-9]+ that starts at position j.
RECURSIVE RunEnd(_, _)
RunEnd(s, j) ==
    IF j + 1 <= Len(s) /\ ~IsDigit(s[j + 1]) THEN RunEnd(s, j + 1) ELSE j

\* s.replace(/dob[^0-9]+/i, ' ') on a lower-cased s: first match only.
\* The match at position i replaced by one space:
StripDobFrom(s, i) ==
    SubSeq(s, 1, i - 1) \o <<" ">> \o SubSeq(s, RunEnd(s, i + 3) + 1, Len(s))

RECURSIVE StripDobScan(_, _)
StripDobScan(s, i) ==
    IF i > Len(s) THEN s
    ELSE IF DobMatchAt(s, i) THEN StripDobFrom(s, i)
    ELSE StripDobScan(s, i + 1)

StripDob(s) == StripDobScan(s, 1)

\* s.match(/\d+/g) || [] : the maximal runs of digits, left to right.
RECURSIVE DigitRuns(_, _)
DigitRuns(s, cur) ==
    IF s = <<>> THEN (IF cur = <<>> THEN <<>> ELSE <<cur>>)
    ELSE IF IsDigit(Head(s)) THEN DigitRuns(Tail(s), Append(cur, Head(s)))
    ELSE (IF cur = <<>> THEN <<>> ELSE <<cur>>) \o DigitRuns(Tail(s), <<>>)

\* const parts = (stripped.match(/\d+/g) || []).map(Number)
DobParts(s) ==
    LET stripped == trim(StripDob(toLowerCase(s)))
        runs == DigitRuns(stripped, <<>>)
    IN  [i \in 1..Len(runs) |-> NumberOf(runs[i])]

\* String(n).length === 4
FourDigits(n) == Len(StringOf(n)) = 4

AssignYMD_dayFirst(parts) ==
    IF FourDigits(parts[1]) THEN <<parts[1], parts[2], parts[3]>>
    ELSE IF FourDigits(parts[3]) THEN <<parts[3], parts[2], parts[1]>>
    ELSE IF FourDigits(parts[2]) THEN <<parts[2], parts[1], parts[3]>>
    ELSE <<IF parts[3] < 100 THEN 2000 + parts[3] ELSE parts[3],
           parts[2], parts[1]>>

\* The year-position branches: <<y, m, d>> before the month/day swap.
AssignYMD(parts) ==
    IF FourDigits(parts[1]) THEN <<parts[1], parts[2], parts[3]>>
    ELSE IF FourDigits(parts[3]) THEN <<parts[3], parts[1], parts[2]>>
    ELSE IF FourDigits(parts[2]) THEN <<parts[2], parts[1], parts[3]>>
    ELSE <<IF parts[3] < 100 THEN 2000 + parts[3] ELSE parts[3],
           parts[1], parts[2]>>

SwapMonthDay_never(m, d) == FALSE

\* if (m > 12 && d <= 12) [m, d] = [d, m]
SwapMonthDay(m, d) == m > 12 /\ d <= 12

InvalidMonthDay_lax(m, d) == m < 1 \/ d < 1

\* if (m < 1 || m > 12 || d < 1 || d > 31) return ''
InvalidMonthDay(m, d) == m < 1 \/ m > 12 \/ d < 1 \/ d > 31

\* `${y}-${pad(m)}-${pad(d)}`
FormatYMD(y, m, d) == StringOf(y) \o <<"-">> \o pad(m) \o <<"-">> \o pad(d)

\* From `Swap if month/day look inverted` to the end, for y, m, d as assigned.
FinishYMD(y, m0, d0) ==
    LET sw == SwapMonthDay(m0, d0)
        m == IF sw THEN d0 ELSE m0
        d == IF sw THEN m0 ELSE d0
    IN  IF InvalidMonthDay(m, d) THEN <<>> ELSE FormatYMD(y, m, d)

parseDob(s) ==
    IF s = <<>> THEN <<>>
    ELSE LET parts == DobParts(s)
         IN  IF Len(parts) < 3 THEN <<>>
             ELSE LET ymd == AssignYMD(parts)
                  IN  FinishYMD(ymd[1], ymd[2], ymd[3])

\* ------------------------------------------------------------------------
\* Documents, mapped fields and map-and-verify responses
\* ------------------------------------------------------------------------
\* The document slots, in the order of renderReview's list.
KeyOrder == <<"name", "address", "dob", "handwritten">>

Keys == {KeyOrder[i] : i \in 1..Len(KeyOrder)}

\* A value that is not a number (undefined, null): typeof v !== 'number'.
NoNumber == -1

\* Field names of the mapping vocabulary, as text.
FieldChars(k) ==
    CASE k = "name" -> <<"n", "a", "m", "e">>
      [] k = "full_name" -> <<"f", "u", "l", "l", "_", "n", "a", "m", "e">>
      [] k = "address" -> <<"a", "d", "d", "r", "e", "s", "s">>
      [] k = "addr" -> <<"a", "d", "d", "r">>
      [] k = "city" -> <<"c", "i", "t", "y">>
      [] k = "state" -> <<"s", "t", "a", "t", "e">>
      [] k = "pincode" -> <<"p", "i", "n", "c", "o", "d", "e">>
      [] k = "dob" -> <<"d", "o", "b">>
      [] k = "date_of_birth" -> <<"d", "a", "t", "e", "_", "o", "f", "_", "b", "i", "r", "t", "h">>
      [] k = "date-of-birth" -> <<"d", "a", "t", "e", "-", "o", "f", "-", "b", "i", "r", "t", "h">>
      [] k = "birth_date" -> <<"b", "i", "r", "t", "h", "_", "d", "a", "t", "e">>
      [] k = "birthdate" -> <<"b", "i", "r", "t", "h", "d", "a", "t", "e">>
      [] k = "date" -> <<"d", "a", "t", "e">>
      [] k = "phone" -> <<"p", "h", "o", "n", "e">>
      [] k = "email" -> <<"e", "m", "a", "i", "l">>
      [] k = "gender" -> <<"g", "e", "n", "d", "e", "r">>
      [] k = "Name" -> <<"N", "a", "m", "e">>
      [] k = "State" -> <<"S", "t", "a", "t", "e">>

FieldNames == {"name", "full_name", "address", "addr", "city", "state", "pincode", "dob",
               "date_of_birth", "date-of-birth", "birth_date", "birthdate", "date", "phone", "email", "gender", "Name", "State"}

\* const docTypeMap = { name: 'aadhar', address: 'dl', dob: 'birth', handwritten: 'handwritten' }
docTypeMap(key) ==
    CASE key = "name" -> "aadhar"
      [] key = "address" -> "dl"
      [] key = "dob" -> "birth"
      [] key = "handwritten" -> "handwritten"

\* frontend/app.js: { name: 'aadhar', address: 'dl', dob: 'birth', handwritten: null };
\* docTypeMap[key] || null ("" is null)
docTypeMapFrontend(key) ==
    CASE key = "name" -> "aadhar"
      [] key = "address" -> "dl"
      [] key = "dob" -> "birth"
      [] key = "handwritten" -> ""

\* A mapped field is an entry [k, value, confidence] of the object `fields`;
\* the object keeps its entries in insertion order.
Field(k, v, c) == [k |-> k, value |-> v, confidence |-> c]

HasField(fields, k) == \E i \in 1..Len(fields) : fields[i].k = k

FieldOf(fields, k) == fields[CHOOSE i \in 1..Len(fields) : fields[i].k = k]

Verification(score, overall) ==
    [score |-> score, overall_confidence |-> overall, notes |-> <<>>]

\* A verification carrying the notes of the verifier.
Noted(verification, notes) == [verification EXCEPT !.notes = notes]

\* mapJson.verification || null, read back as item.verification || {}
NoVerification == Verification(NoNumber, NoNumber)

TxtJohn == <<"J", "o", "h", "n">>

TxtElm == <<"1", "2", " ", "E", "l", "m", " ", "S", "t">>

TxtPune == <<"P", "u", "n", "e">>

TxtIso == <<"1", "9", "9", "0", "-", "0", "2", "-", "0", "1">>

TxtPhone == <<"5", "5", "5">>

TxtJon == <<"J", "o", "n">>

TxtIdMail == <<"I", "D", ":", " ", "a", "@", "b">>

\* A map-and-verify response body: [mapped, verification].
Response(mapped, verification) == [mapped |-> mapped, verification |-> verification]

\* Bodies the backend returns for a request of the document `key`
\* (the request carries the document's type).
ResponsesFor(key) ==
    CASE key = "name" ->
            { Response(<<Field("name", TxtJohn, Scale)>>, NoVerification),
              Response(<<Field("name", TxtJohn, Scale),
                         Field("phone", TxtPhone, 100000)>>, NoVerification) }
      [] key = "address" ->
            { Response(<<Field("name", TxtJohn, NoNumber),
                         Field("address", TxtElm, Scale),
                         Field("dob", TxtIso, Scale)>>,
                       Verification(599999, NoNumber)) }
      [] key = "dob" ->
            { Response(<<Field("dob", TxtIso, Scale),
                         Field("name", TxtJohn, 200000)>>,
                       Noted(Verification(NoNumber, Scale), <<"age_mismatch">>)) }
      [] key = "handwritten" ->
            { Response(<<Field("name", TxtJohn, Scale),
                         Field("Name", TxtJon, Scale),
                         Field("email", TxtIdMail, 500000),
                         Field("gender", <<" ">>, NoNumber),
                         Field("date", TxtIso, Scale)>>, NoVerification),
              Response(<<>>, NoVerification) }

MapResponses == UNION { ResponsesFor(key) : key \in Keys }

\* Raw text of the OCR response for the document `key`.
RawTextsFor(key) ==
    CASE key = "name" -> { <<"J", "o", "h", "n">> }
      [] key = "address" -> { <<"C", "i", "t", "y", ":", " ", "P", "u", "n", "e">> }
      [] key = "dob" -> { <<"1", "9", "9", "0">> }
      [] key = "handwritten" -> { <<"h", "w">> }

RawTexts == UNION { RawTextsFor(key) : key \in Keys }

\* ------------------------------------------------------------------------
\* renderReview: score, percentage and badge
\* ------------------------------------------------------------------------
RECURSIVE ConfTotal_missingZero(_)
ConfTotal_missingZero(fields) ==
    IF fields = <<>> THEN 0
    ELSE (IF Head(fields).confidence # NoNumber
          THEN Head(fields).confidence ELSE 0) + ConfTotal_missingZero(Tail(fields))

RECURSIVE ConfTotal(_)
\* total += (f.confidence !== undefined) ? Number(f.confidence) : 1.0
ConfTotal(fields) ==
    IF fields = <<>> THEN 0
    ELSE (IF Head(fields).confidence # NoNumber
          THEN Head(fields).confidence ELSE Scale) + ConfTotal(Tail(fields))

\* The score as the exact rational <<num, den>>.
ScoreOf(fields, verification) ==
    IF verification.score # NoNumber THEN <<verification.score, Scale>>
    ELSE IF verification.overall_confidence # NoNumber
         THEN <<verification.overall_confidence, Scale>>
    ELSE IF Len(fields) = 0 THEN <<0, 1>>
    ELSE <<ConfTotal(fields), Len(fields) * Scale>>

\* Math.round(score * 100)
RoundPct(score) == (200 * score[1] + score[2]) \div (2 * score[2])

BelowSixty(score) == 10 * score[1] < 6 * score[2]

BadgeClass(low) == IF low THEN "bg-warning text-dark" ELSE "bg-success"

\* Extracted-text box: scorePct < 60 ? 'bg-warning text-dark' : 'bg-success'
BoxBadge(score) == BadgeClass(RoundPct(score) < 60)

\* Confidence panel: score < 0.6 ? 'bg-warning text-dark' : 'bg-success'
PanelBadge(score) == BadgeClass(BelowSixty(score))

\* ------------------------------------------------------------------------
\* renderReview: text of the extracted-text box
\* ------------------------------------------------------------------------
\* const filterKeys = key === 'name' ? [...] : ... : null  (<<>> is null)
filterKeys_all(key) ==
    IF key = "handwritten" THEN <<>>
    ELSE <<"name", "full_name", "address", "addr", "city", "state", "pincode",
           "dob", "date", "phone", "email", "gender">>

filterKeys(key) ==
    CASE key = "name" -> <<"name", "full_name">>
      [] key = "address" -> <<"address", "addr", "city", "state", "pincode">>
      [] key = "dob" -> <<"dob", "date_of_birth", "date-of-birth", "birth_date",
                          "birthdate", "date">>
      [] OTHER -> <<>>

\* frontend/app.js: key === 'name' ? ['name'] : key === 'address' ? ['address'] : ...
filterKeysFrontend(key) ==
    CASE key = "name" -> <<"name">>
      [] key = "address" -> <<"address">>
      [] key = "dob" -> <<"dob">>
      [] OTHER -> <<>>

InSeq(x, seq) == \E i \in 1..Len(seq) : seq[i] = x

\* An entry of `collected` / `merged`: [k, val].
Entry(k, val) == [k |-> k, val |-> val]

HasEntry(coll, k) == \E i \in 1..Len(coll) : coll[i].k = k

EntryVal(coll, k) ==
    IF HasEntry(coll, k) THEN coll[CHOOSE i \in 1..Len(coll) : coll[i].k = k].val
    ELSE <<>>

RECURSIVE Collect(_, _)
\* filterKeys.forEach(fk => { ... collected[fk] = String(val).trim() })
Collect(fields, fks) ==
    IF fks = <<>> THEN <<>>
    ELSE LET fk == Head(fks)
             rest == Collect(fields, Tail(fks))
         IN  IF HasField(fields, fk) /\ trim(FieldOf(fields, fk).value) # <<>>
             THEN <<Entry(fk, trim(FieldOf(fields, fk).value))>> \o rest
             ELSE rest

\* Is the lower-case label lab at position i of s (flag i) ?
LabelAt(s, i, lab) ==
    /\ i + Len(lab) - 1 <= Len(s)
    /\ \A j \in 1..Len(lab) : ToLowerChar(s[i + j - 1]) = lab[j]

\* First position from p on that is not white space (Len(s) + 1 if none).
RECURSIVE WsEnd(_, _)
WsEnd(s, p) == IF p <= Len(s) /\ IsSpace(s[p]) THEN WsEnd(s, p + 1) ELSE p

\* ([^\n,]+) can start at position c.
CapOk(s, c) == c >= 1 /\ c <= Len(s) /\ s[c] \notin {"\n", ","}

\* The positions hi, hi - 1, ..., lo.
Descending(hi, lo) == [i \in 1..(IF hi >= lo THEN hi - lo + 1 ELSE 0) |-> hi - i + 1]

\* \s*[:\-]?\s*([^\n,]+) from position p: where the capture starts, in the
\* order in which the greedy quantifiers backtrack; 0 when nothing matches.
CaptureStart(s, p) ==
    LET a == WsEnd(s, p)
        hasSep == a <= Len(s) /\ s[a] \in {":", "-"}
        cands == (IF hasSep THEN Descending(WsEnd(s, a + 1), a + 1) ELSE <<>>)
                     \o Descending(a, p)
    IN  IF \E i \in 1..Len(cands) : CapOk(s, cands[i])
        THEN cands[CHOOSE i \in 1..Len(cands) :
                       /\ CapOk(s, cands[i])
                       /\ \A h \in 1..(i - 1) : ~CapOk(s, cands[h])]
        ELSE 0

\* The greedy run [^\n,]+ from position c.
RECURSIVE CaptureRun(_, _)
CaptureRun(s, c) ==
    IF CapOk(s, c) THEN <<s[c]>> \o CaptureRun(s, c + 1) ELSE <<>>

\* rt.match(/<lab>\s*[:\-]?\s*([^\n,]+)/i), then m[1].trim(); <<>> if no match.
RECURSIVE RawLabelScan(_, _, _)
RawLabelScan(s, lab, i) ==
    IF i > Len(s) THEN <<>>
    ELSE IF LabelAt(s, i, lab) /\ CaptureStart(s, i + Len(lab)) # 0
         THEN trim(CaptureRun(s, CaptureStart(s, i + Len(lab))))
    ELSE RawLabelScan(s, lab, i + 1)

RawLabelValue(s, lab) == RawLabelScan(s, lab, 1)

\* The greedy run \d{..10} from position c, at most n digits.
RECURSIVE DigitsFrom(_, _, _)
DigitsFrom(s, c, n) ==
    IF n > 0 /\ c <= Len(s) /\ IsDigit(s[c])
    THEN <<s[c]>> \o DigitsFrom(s, c + 1, n - 1) ELSE <<>>

\* \s*[:\-]?\s*(\d{4,10}) from position p: the captured digits, or <<>>.
PinCapture(s, p) ==
    LET a == WsEnd(s, p)
        c == IF a <= Len(s) /\ s[a] \in {":", "-"} THEN WsEnd(s, a + 1) ELSE a
        ds == DigitsFrom(s, c, 10)
    IN  IF Len(ds) >= 4 THEN ds ELSE <<>>

\* (?:pin\s*code|pincode|zip\s*code|zipcode|zip) at position i: the positions
\* right after the label, in the order of the alternatives.
PinLabelEnds(s, i) ==
    LET pin == <<"p", "i", "n">>
        zip == <<"z", "i", "p">>
        code == <<"c", "o", "d", "e">>
        after(l) == IF LabelAt(s, i, l) /\ LabelAt(s, WsEnd(s, i + 3), code)
                    THEN <<WsEnd(s, i + 3) + 4>> ELSE <<>>
    IN  after(pin) \o after(zip) \o (IF LabelAt(s, i, zip) THEN <<i + 3>> ELSE <<>>)

PinMatchAt(s, i) ==
    LET ends == PinLabelEnds(s, i)
    IN  IF \E j \in 1..Len(ends) : PinCapture(s, ends[j]) # <<>>
        THEN PinCapture(s, ends[CHOOSE j \in 1..Len(ends) :
                                    /\ PinCapture(s, ends[j]) # <<>>
                                    /\ \A h \in 1..(j - 1) : PinCapture(s, ends[h]) = <<>>])
        ELSE <<>>

\* rt.match(/(?:pin\s*code|...|zip)\s*[:\-]?\s*(\d{4,10})/i), then m[1].trim()
RECURSIVE RawPinScan(_, _)
RawPinScan(s, i) ==
    IF i > Len(s) THEN <<>>
    ELSE IF PinMatchAt(s, i) # <<>> THEN PinMatchAt(s, i)
    ELSE RawPinScan(s, i + 1)

RawPincode(s) == RawPinScan(s, 1)

\* if (!collected.<k>) { const m = rt.match(...); if (m && m[1].trim()) collected.<k> = ... }
FromRaw(coll, k, found) ==
    IF ~HasEntry(coll, k) /\ found # <<>> THEN Append(coll, Entry(k, found)) ELSE coll

\* if (key === 'address' && item.rawText) { city, state, pincode from the raw text }
SurfaceFromRaw(coll, rawText) ==
    IF rawText = <<>> THEN coll
    ELSE LET c1 == FromRaw(coll, "city", RawLabelValue(rawText, <<"c", "i", "t", "y">>))
             c2 == FromRaw(c1, "state", RawLabelValue(rawText, <<"s", "t", "a", "t", "e">>))
         IN  FromRaw(c2, "pincode", RawPincode(rawText))

RECURSIVE JoinWith(_, _)
\* Array.prototype.join
JoinWith(texts, sep) ==
    IF texts = <<>> THEN <<>>
    ELSE IF Len(texts) = 1 THEN texts[1]
    ELSE texts[1] \o sep \o JoinWith(Tail(texts), sep)

\* A line of the box: the text and the field names whose values it shows.
Line(ks, text) == [keys |-> ks, text |-> text]

\* `${fk}: ${val}`
LabelledLine(k, label, val) == Line(<<k>>, label \o <<":", " ">> \o val)

\* Object.entries(collected).forEach(([fk, val]) => lines.push(`${fk}: ${val}`))
EntryLines(coll) == [i \in 1..Len(coll) |-> LabelledLine(coll[i].k, FieldChars(coll[i].k), coll[i].val)]

\* The single-line address: parts.filter(Boolean).join(', ')
AddressLines(coll) ==
    LET first == IF HasEntry(coll, "address") THEN "address" ELSE "addr"
        ks == SelectSeq(<<first, "city", "state", "pincode">>,
                        LAMBDA k : HasEntry(coll, k))
        joined == JoinWith([i \in 1..Len(ks) |-> EntryVal(coll, ks[i])], <<",", " ">>)
    IN  IF joined # <<>> THEN <<Line(ks, joined)>> ELSE EntryLines(coll)

\* s = s.replace(/^id:\s*/i, '')
StripId(s) ==
    IF LabelAt(s, 1, <<"i", "d", ":">>) THEN SubSeq(s, WsEnd(s, 4), Len(s)) ELSE s

\* normVal of the handwritten document
normVal(k, v) ==
    IF trim(v) = <<>> THEN <<>>
    ELSE IF k = "email" THEN StripId(trim(v)) ELSE trim(v)

\* String(k).toLowerCase() on the field vocabulary
LowerKey(k) ==
    CASE k = "Name" -> "name"
      [] k = "State" -> "state"
      [] OTHER -> k

RECURSIVE Merge(_, _)
\* if (!val) return; if (!merged[keyLc]) merged[keyLc] = val
Merge(fields, merged) ==
    IF fields = <<>> THEN merged
    ELSE LET f == Head(fields)
             val == normVal(f.k, f.value)
         IN  Merge(Tail(fields),
                   IF val # <<>> /\ ~HasEntry(merged, LowerKey(f.k))
                   THEN Append(merged, Entry(LowerKey(f.k), val)) ELSE merged)

ordered == <<"name", "dob", "gender", "address", "city", "state", "pincode",
             "phone", "email">>

\* labelMap[k] || k
labelMap(k) ==
    CASE k = "name" -> <<"N", "a", "m", "e">>
      [] k = "dob" -> <<"D", "a", "t", "e", " ", "o", "f", " ", "B", "i", "r", "t", "h">>
      [] k = "gender" -> <<"G", "e", "n", "d", "e", "r">>
      [] k = "address" -> <<"A", "d", "d", "r", "e", "s", "s">>
      [] k = "city" -> <<"C", "i", "t", "y">>
      [] k = "state" -> <<"S", "t", "a", "t", "e">>
      [] k = "pincode" -> <<"P", "i", "n", "c", "o", "d", "e">>
      [] k = "phone" -> <<"P", "h", "o", "n", "e">>
      [] k = "email" -> <<"E", "m", "a", "i", "l">>
      [] OTHER -> FieldChars(k)

HandwrittenLines_orderedOnly(fields) ==
    LET merged == Merge(fields, <<>>)
        firstKs == SelectSeq(ordered, LAMBDA k : HasEntry(merged, k))
    IN  [i \in 1..Len(firstKs) |->
             LabelledLine(firstKs[i], labelMap(firstKs[i]), EntryVal(merged, firstKs[i]))]

\* Lines of the handwritten document: the ordered fields, then the others.
HandwrittenLines(fields) ==
    LET merged == Merge(fields, <<>>)
        firstKs == SelectSeq(ordered, LAMBDA k : HasEntry(merged, k))
        others == SelectSeq(merged, LAMBDA e : ~InSeq(e.k, ordered))
    IN  [i \in 1..Len(firstKs) |->
             LabelledLine(firstKs[i], labelMap(firstKs[i]), EntryVal(merged, firstKs[i]))]
        \o [i \in 1..Len(others) |->
             LabelledLine(others[i].k, labelMap(others[i].k), others[i].val)]

\* The lines pushed by the view-text handler for the document `key`.
DisplayLines(key, fields, rawText) ==
    IF filterKeys(key) # <<>>
    THEN LET collected == Collect(fields, filterKeys(key))
         IN  IF key = "address"
             THEN AddressLines(SurfaceFromRaw(collected, rawText))
             ELSE EntryLines(collected)
    ELSE HandwrittenLines(fields)

RECURSIVE FrontendLines(_, _)
\* frontend/app.js: Object.entries(fields).forEach(([k, v]) => { if (filterKeys &&
\* !filterKeys.includes(k)) return; ... lines.push(`${k}: ${val}`) })
FrontendLines(key, fields) ==
    IF fields = <<>> THEN <<>>
    ELSE LET f == Head(fields)
             rest == FrontendLines(key, Tail(fields))
         IN  IF (filterKeysFrontend(key) # <<>> /\ ~InSeq(f.k, filterKeysFrontend(key)))
                  \/ trim(f.value) = <<>>
             THEN rest
             ELSE <<LabelledLine(f.k, FieldChars(f.k), f.value)>> \o rest

NoText == <<"(", "n", "o", " ", "t", "e", "x", "t", ")">>

\* const displayText = lines.length ? lines.join('\n') : '(no text)'
DisplayText(lines) ==
    IF Len(lines) > 0
    THEN JoinWith([i \in 1..Len(lines) |-> lines[i].text], <<"\n">>)
    ELSE NoText

\* ------------------------------------------------------------------------
\* State
\* ------------------------------------------------------------------------
VARIABLES
    dobPc,      \* "input": text chosen, parseDob not yet applied; "done"
    dobIn,      \* text handed to parseDob
    dobOut,     \* parseDob(dobIn)
    dobAgain,   \* parseDob(dobOut)
    view,                   \* the view left visible by switchView
    formDob,                \* dobEl.value of the applicant form
    formFilled,             \* the other required inputs of the form are filled
    editDob,                \* editDobEl.value on the upload page
    selectedDocs,           \* file chosen per document slot ("" is none)
    submits,                \* one entry per submitData invocation:
                            \*   [pc, tasks, files, userDob, raw, ocrRes, mapReq, results]
    spinner,                \* loadingSpinner is visible
    reviewResults,          \* 0 is null, n is the results object of invocation n
    docList,                \* keys listed in doc-list
    docListObj,             \* results object captured by docListEl.onclick
    confidencePanel,        \* rows of the confidence panel
    box,                    \* extracted-text box: title, badge and text, and the
                            \*   results object (its invocation) it was filled from
    currentDocKey,          \* "" is null
    originalExtractedText,
    isEditingExtracted,
    inputValue,             \* extractedTextInputEl.value
    saveBtn,                \* save-extracted: [visible, disabled]
    pendingSaves,           \* map-and-verify requests of Save in flight
    saveCount,              \* Save requests sent so far
    lastDob,                \* userDob, newText, normUser, normEdit, dobConf of the last DOB save
    alertMsg,               \* message of the alert() of the handler that ran last ("" is none)
    verifyForm,             \* notes of the verification warning in verify-form
    viewPc,                 \* "ready": page loaded; "called": switchView has run
    dNone,                  \* ids of the elements that have the class d-none
    viewName,               \* argument of the last switchView call
    dNoneOther,             \* d-none had the call used the other name of the view
    userPc,                 \* "loaded", "editing" (Edit clicked), "saved" (Save
                            \*   clicked after it), "built": buildUserFromUI has run
    formInputs,             \* values of the inputs of the applicant form
    editInputs,             \* values of the review inputs of the upload page
    isEditingApplicant,
    editDisabled,           \* the review inputs are disabled
    saveApplicantHidden,    \* save-applicant has the class d-none
    user,                   \* the record buildUserFromUI returned
    userAt,                 \* userPc at the call of buildUserFromUI
    mosipCalls,             \* one entry per submitToMOSIP invocation that passed the
                            \*   first check: [pc, test, request, outcome]
    mosipLoading,           \* mosip-loading is visible
    mosipResult,            \* content of mosip-result: [kind, message]
    mosipStatus,            \* text set by setMosipStatus
    mosipStored             \* localStorage holds the last MOSIP response

dobVars == <<dobPc, dobIn, dobOut, dobAgain>>

formVars == <<formDob, formFilled, editDob, selectedDocs>>

submitVars == <<submits, spinner>>

reviewVars == <<reviewResults, docList, docListObj, confidencePanel>>

boxVars == <<box, currentDocKey, originalExtractedText, isEditingExtracted,
             inputValue, saveBtn>>

saveVars == <<pendingSaves, saveCount, lastDob>>

domVars == <<viewPc, dNone, viewName, dNoneOther>>

userVars == <<userPc, formInputs, editInputs, isEditingApplicant, editDisabled,
              saveApplicantHidden, user, userAt>>

mosipVars == <<mosipCalls, mosipLoading, mosipResult, mosipStatus, mosipStored>>

pageVars == <<domVars, userVars, mosipVars>>

vars == <<dobVars, view, formVars, submitVars, reviewVars, boxVars, saveVars,
          alertMsg, verifyForm, pageVars>>

\* ------------------------------------------------------------------------
\* Specification of parseDob alone: its inputs are drawn from DobTexts
\* ------------------------------------------------------------------------
\* Numeric groups as they are typed (leading zeros kept).
DobGroups ==
    { <<"0">>, <<"0", "1">>, <<"1", "2">>, <<"1", "3">>, <<"3", "2">>,
      <<"9", "0">>, <<"1", "2", "3">>, <<"1", "9", "9", "0">> }

DobSeparators == { <<"/">>, <<"-">> }

DobPrefixes == { <<>>, <<"D", "O", "B", ":", " ">> }

RECURSIVE GroupTexts(_, _)
\* Texts of exactly n numeric groups joined by the separator sep.
GroupTexts(n, sep) ==
    IF n = 0 THEN { <<>> }
    ELSE IF n = 1 THEN DobGroups
    ELSE { t \o sep \o g : t \in GroupTexts(n - 1, sep), g \in DobGroups }

DobTexts ==
    UNION { { p \o t : p \in DobPrefixes, t \in GroupTexts(n, sep) } :
            n \in 0..MaxParts, sep \in DobSeparators }

\* ------------------------------------------------------------------------
\* The application: initial state
\* ------------------------------------------------------------------------
\* Files the user can choose for the document `key`.
FilesFor(key) ==
    CASE key = "name" -> {"name.png"}
      [] key = "address" -> {"address.png"}
      [] key = "dob" -> {"dob.png"}
      [] key = "handwritten" -> {"handwritten.png"}

Files == UNION { FilesFor(key) : key \in Keys }

\* Values of the date inputs of the form and of the upload page.
UserDobs == { <<>>, TxtIso }

\* Texts the user can type into the extracted-text input of a document:
\* dates for the DOB document, one other text for the other documents.
TxtDob0102 == <<"D", "O", "B", ":", " ", "0", "1", "/", "0", "2", "/", "1", "9", "9", "0">>

TxtDob0201 == <<"D", "O", "B", ":", " ", "0", "2", "/", "0", "1", "/", "1", "9", "9", "0">>

TxtNoDate == <<"n", "/", "a">>

TypedTexts(key) ==
    IF key = "dob" THEN {TxtDob0102, TxtDob0201, TxtNoDate} ELSE {TxtNoDate}

NoBox == [open |-> FALSE, title |-> "", score |-> <<0, 1>>, pct |-> 0,
          class |-> "", text |-> <<>>, lines |-> <<>>, results |-> 0]

NoDob == [userDob |-> <<>>, newText |-> <<>>, normUser |-> <<>>,
          normEdit |-> <<>>, dobConf |-> NoNumber]

AppInit ==
    /\ view = "dashboard"
    /\ formDob = <<>>
    /\ formFilled = FALSE
    /\ editDob = <<>>
    /\ selectedDocs = [k \in Keys |-> ""]
    /\ submits = <<>>
    /\ spinner = FALSE
    /\ reviewResults = 0
    /\ docList = <<>>
    /\ docListObj = 0
    /\ confidencePanel = <<>>
    /\ box = NoBox
    /\ currentDocKey = ""
    /\ originalExtractedText = <<>>
    /\ isEditingExtracted = FALSE
    /\ inputValue = <<>>
    /\ saveBtn = [visible |-> FALSE, disabled |-> TRUE]
    /\ pendingSaves = <<>>
    /\ saveCount = 0
    /\ lastDob = NoDob
    /\ alertMsg = ""
    /\ verifyForm = <<>>

\* switchView is not followed element by element.
DomOff ==
    /\ viewPc = "off"
    /\ dNone = {}
    /\ viewName = <<>>
    /\ dNoneOther = {}

\* buildUserFromUI is not followed field by field.
UserOff ==
    /\ userPc = "off"
    /\ formInputs = <<>>
    /\ editInputs = <<>>
    /\ isEditingApplicant = FALSE
    /\ editDisabled = TRUE
    /\ saveApplicantHidden = TRUE
    /\ user = <<>>
    /\ userAt = "off"

\* mosip-result as the page is loaded.
NoResult == [kind |-> "", message |-> ""]

\* No submitToMOSIP invocation yet.
MosipInit ==
    /\ mosipCalls = <<>>
    /\ mosipLoading = FALSE
    /\ mosipResult = NoResult
    /\ mosipStatus = ""
    /\ mosipStored = FALSE

DobInit ==
    /\ dobPc = "input"
    /\ dobIn \in DobTexts
    /\ dobOut = <<>>
    /\ dobAgain = <<>>
    /\ AppInit
    /\ DomOff
    /\ UserOff
    /\ MosipInit

\* normEdit = parseDob(newText), and the normaliser applied to its own result.
ParseDobCall ==
    /\ dobPc = "input"
    /\ dobPc' = "done"
    /\ dobOut' = parseDob(dobIn)
    /\ dobAgain' = parseDob(parseDob(dobIn))
    /\ UNCHANGED <<dobIn, pageVars, alertMsg, verifyForm, view, formVars, submitVars, reviewVars, boxVars, saveVars>>

DobNext == ParseDobCall

SpecDob == DobInit /\ [][DobNext]_vars

\* ------------------------------------------------------------------------
\* The application: operations
\* ------------------------------------------------------------------------
\* buildUserFromUI().dob : dobFromReview || dobEl?.value || ''
buildUserDob == IF editDob # <<>> THEN editDob ELSE formDob

\* A results object: its entries [k, item] in insertion order.
ObjHas(obj, k) == \E i \in 1..Len(obj) : obj[i].k = k

ObjGet(obj, k) == obj[CHOOSE i \in 1..Len(obj) : obj[i].k = k].item

ObjPut_last(obj, k, item) ==
    IF obj = <<>> THEN <<[k |-> k, item |-> item]>>
    ELSE [obj EXCEPT ![Len(obj)].item = item]

\* obj[k] = item
ObjPut(obj, k, item) ==
    IF ObjHas(obj, k)
    THEN [i \in 1..Len(obj) |-> IF obj[i].k = k THEN [k |-> k, item |-> item] ELSE obj[i]]
    ELSE Append(obj, [k |-> k, item |-> item])

Item(fileName, rawText, fields, verification, url) ==
    [fileName |-> fileName, rawText |-> rawText, fields |-> fields,
     verification |-> verification, url |-> url]

\* body: JSON.stringify({ raw_text, user, document_type }); the user record
\* is represented by its date of birth.
MapRequest(raw_text, userDob, document_type) ==
    [raw_text |-> raw_text, userDob |-> userDob, document_type |-> document_type]

\* No OCR response was received.
NoOcrResult == [status |-> "none", raw |-> <<>>]

\* No map-and-verify request was sent.
NoRequest == MapRequest(<<>>, <<>>, "")

\* order.forEach(({ key, label }) => { const item = results[key]; if (!item) return; ... })
ListedKeys(obj) == SelectSeq(KeyOrder, LAMBDA k : ObjHas(obj, k))

\* Object.entries(results).forEach(([key, item]) => { ... confidence panel row })
PanelRows(obj) ==
    [i \in 1..Len(obj) |->
        LET score == ScoreOf(obj[i].item.fields, obj[i].item.verification)
        IN  [k |-> obj[i].k, score |-> score, pct |-> RoundPct(score),
             class |-> PanelBadge(score)]]

\* renderReview(results) where results is the object of invocation n
RenderReview(n, obj) ==
    /\ docList' = ListedKeys(obj)
    /\ docListObj' = n
    /\ confidencePanel' = PanelRows(obj)

\* The box showing the title, the score and the lines.
Box(n, title, score, lines) ==
    [open |-> TRUE, title |-> title, score |-> score, pct |-> RoundPct(score),
     class |-> BoxBadge(score), text |-> DisplayText(lines), lines |-> lines,
     results |-> n]

\* The view-text branch of docListEl.onclick for the document `key`
OpenExtracted(key, n, obj) ==
    LET item == ObjGet(obj, key)
    IN  /\ box' = Box(n, item.fileName, ScoreOf(item.fields, item.verification),
                      DisplayLines(key, item.fields, item.rawText))
        /\ inputValue' = box'.text
        /\ saveBtn' = [visible |-> FALSE, disabled |-> TRUE]
        /\ currentDocKey' = key
        /\ originalExtractedText' = box'.text
        /\ isEditingExtracted' = FALSE

\* start-registration click
StartRegistration ==
    /\ view = "dashboard"
    /\ view' = "form"
    /\ alertMsg' = ""
    /\ UNCHANGED <<dobVars, pageVars, verifyForm, formVars, submitVars, reviewVars, boxVars, saveVars>>

\* The user fills the date of birth of the applicant form.
TypeFormDob ==
    /\ view = "form"
    /\ \E v \in UserDobs : formDob' = v /\ v # formDob
    /\ alertMsg' = ""
    /\ UNCHANGED <<dobVars, pageVars, verifyForm, view, formFilled, editDob, selectedDocs, submitVars,
                   reviewVars, boxVars, saveVars>>

\* The user fills or clears the other required inputs of the applicant form.
TypeFormOthers ==
    /\ view = "form"
    /\ formFilled' = ~formFilled
    /\ alertMsg' = ""
    /\ UNCHANGED <<dobVars, pageVars, verifyForm, view, formDob, editDob, selectedDocs, submitVars,
                   reviewVars, boxVars, saveVars>>

checkValidity_skip(filled, dob) == TRUE

\* form.checkValidity(): every required input, the date of birth included, is filled.
checkValidity(filled, dob) == filled /\ dob # <<>>

\* continue-to-upload click
ContinueToUpload ==
    /\ view = "form"
    /\ IF checkValidity(formFilled, formDob)
       THEN /\ view' = "upload"
            /\ editDob' = formDob
       ELSE UNCHANGED <<view, editDob>>
    /\ alertMsg' = ""
    /\ UNCHANGED <<dobVars, pageVars, verifyForm, formDob, formFilled, selectedDocs, submitVars, reviewVars,
                   boxVars, saveVars>>

\* change event of a document input: a file is chosen or the choice is cleared
\* (the user leaves the inputs alone while the loading spinner is shown).
SelectDoc ==
    /\ view = "upload"
    /\ ~spinner
    /\ \E k \in Keys : \E f \in FilesFor(k) \cup {""} :
          /\ f # selectedDocs[k]
          /\ selectedDocs' = [selectedDocs EXCEPT ![k] = f]
          /\ Cardinality({x \in Keys : selectedDocs'[x] # ""}) <= MaxDocs
    /\ alertMsg' = ""
    /\ UNCHANGED <<dobVars, pageVars, verifyForm, view, formDob, formFilled, editDob, submitVars, reviewVars,
                   boxVars, saveVars>>

\* alert('Please upload at least one document before submitting.')
UploadPrompt == "Please upload at least one document before submitting."

\* alert(`Error during document processing: ${e.message}`)
ProcessingError == "Error during document processing"

\* alert(`Unable to save edits: ${err.message}`)
SaveError == "Unable to save edits"

NoTasks_never(docs) == FALSE

\* tasks.length === 0: no document input holds a file.
NoTasks(docs) == \A k \in Keys : docs[k] = ""

\* renderForm(data): the notes of the verification warning it inserts.
renderForm(data) ==
    IF data.verification.notes # <<>> THEN data.verification.notes ELSE <<>>

\* The continuation of `await Promise.all(tasks)` in invocation n: hide the
\* spinner, switchView('view-review'), renderReview(results), reviewResults = results.
Settle(n, subs) ==
    /\ submits' = [subs EXCEPT ![n].pc = "settled"]
    /\ spinner' = FALSE
    /\ view' = "review"
    /\ RenderReview(n, submits'[n].results)
    /\ reviewResults' = n

AllDone_never(sub) == FALSE

\* Promise.all(tasks) is fulfilled: every task is done.
AllDone(sub) == \A k \in Keys : sub.tasks[k] \in {"none", "done"}

\* A task of invocation n has finished a step giving the invocations subs.
AfterTask(n, subs, rejected) ==
    IF submits[n].pc = "awaiting" /\ (rejected \/ AllDone(subs[n]))
    THEN /\ alertMsg' = IF rejected THEN ProcessingError ELSE ""
         /\ Settle(n, subs)
    ELSE /\ submits' = subs
         /\ alertMsg' = ""
         /\ UNCHANGED <<spinner, view, reviewVars>>

\* The documents handed to processDoc by the invocations subs.
RECURSIVE SubmittedDocs(_)
SubmittedDocs(subs) ==
    IF subs = <<>> THEN 0
    ELSE Cardinality({k \in Keys : Head(subs).files[k] # ""}) + SubmittedDocs(Tail(subs))

\* submitData up to `await Promise.all(tasks)`.  The invocations of a run
\* process at most MaxDocs documents in all.
SubmitData ==
    /\ view = "upload"
    /\ IF NoTasks(selectedDocs)
       THEN /\ alertMsg' = UploadPrompt
            /\ UNCHANGED <<submits, spinner>>
       ELSE /\ alertMsg' = ""
            /\ SubmittedDocs(submits) + Cardinality({k \in Keys : selectedDocs[k] # ""})
                  <= MaxDocs
            /\ submits' = Append(submits,
                   [pc |-> "awaiting",
                    tasks |-> [k \in Keys |-> IF selectedDocs[k] # "" THEN "ocr" ELSE "none"],
                    files |-> selectedDocs,
                    userDob |-> buildUserDob,
                    raw |-> [k \in Keys |-> <<>>],
                    ocrRes |-> [k \in Keys |-> NoOcrResult],
                    mapReq |-> [k \in Keys |-> NoRequest],
                    results |-> <<>>])
            /\ spinner' = TRUE
    /\ UNCHANGED <<dobVars, pageVars, verifyForm, view, formVars, reviewVars, boxVars, saveVars>>

\* The OCR response received for a document: its status and its raw text.
OcrResult(ok, rawText) == [status |-> IF ok THEN "ok" ELSE "failed", raw |-> rawText]

TaskAfterOcr_always(ok) == "map"

\* if (!ocrRes.ok) throw ...: the step of processDoc after the OCR response.
TaskAfterOcr(ok) == IF ok THEN "map" ELSE "failed"

\* processDoc after the OCR response with status ok and body rawText.
OcrResponse(n, k, ok, rawText) ==
    LET next == TaskAfterOcr(ok)
        subs == [submits EXCEPT
                    ![n].tasks[k] = next,
                    ![n].ocrRes[k] = OcrResult(ok, rawText),
                    ![n].raw[k] = IF next = "map" THEN rawText ELSE @,
                    ![n].mapReq[k] = IF next = "map"
                                     THEN MapRequest(rawText, submits[n].userDob,
                                                     docTypeMap(k))
                                     ELSE @]
    IN  AfterTask(n, subs, next = "failed")

\* processDoc: the OCR response is ok; the map-and-verify request is sent.
OcrOk ==
    \E n \in 1..Len(submits), k \in Keys :
        /\ submits[n].tasks[k] = "ocr"
        /\ \E rawText \in RawTextsFor(k) : OcrResponse(n, k, TRUE, rawText)
        /\ UNCHANGED <<dobVars, pageVars, verifyForm, formVars, boxVars, saveVars>>

\* processDoc: the OCR response is not ok and the task throws.
OcrFail ==
    \E n \in 1..Len(submits), k \in Keys :
        /\ submits[n].tasks[k] = "ocr"
        /\ OcrResponse(n, k, FALSE, <<>>)
        /\ UNCHANGED <<dobVars, pageVars, verifyForm, formVars, boxVars, saveVars>>

\* processDoc: the map-and-verify response is ok; results[key] is stored.
MapOk ==
    \E n \in 1..Len(submits), k \in Keys : \E resp \in ResponsesFor(k) :
        /\ submits[n].tasks[k] = "map"
        /\ AfterTask(n,
              [submits EXCEPT
                  ![n].tasks[k] = "done",
                  ![n].results = ObjPut(@, k,
                       Item(submits[n].files[k], submits[n].raw[k], resp.mapped,
                            resp.verification, submits[n].files[k]))],
              FALSE)
        /\ UNCHANGED <<dobVars, pageVars, verifyForm, formVars, boxVars, saveVars>>

\* processDoc: the map-and-verify response is not ok and the task throws.
MapFail ==
    \E n \in 1..Len(submits), k \in Keys :
        /\ submits[n].tasks[k] = "map"
        /\ AfterTask(n, [submits EXCEPT ![n].tasks[k] = "failed"], TRUE)
        /\ UNCHANGED <<dobVars, pageVars, verifyForm, formVars, boxVars, saveVars>>

\* Click on "View Extracted Text" of a listed document.
ViewText ==
    /\ view = "review"
    /\ \E i \in 1..Len(docList) :
          /\ ObjHas(submits[docListObj].results, docList[i])
          /\ OpenExtracted(docList[i], docListObj, submits[docListObj].results)
    /\ alertMsg' = ""
    /\ UNCHANGED <<dobVars, pageVars, verifyForm, view, formVars, submitVars, reviewVars, saveVars>>

\* edit-extracted click
EditExtracted ==
    /\ view = "review"
    /\ currentDocKey # ""
    /\ ~isEditingExtracted
    /\ isEditingExtracted' = TRUE
    /\ originalExtractedText' = inputValue
    /\ saveBtn' = [visible |-> TRUE, disabled |-> TRUE]
    /\ alertMsg' = ""
    /\ UNCHANGED <<dobVars, pageVars, verifyForm, view, formVars, submitVars, reviewVars, box,
                   currentDocKey, inputValue, saveVars>>

\* input event of the extracted-text input
InputExtracted ==
    /\ view = "review"
    /\ isEditingExtracted
    /\ \E t \in TypedTexts(currentDocKey) \cup {originalExtractedText} :
          /\ t # inputValue
          /\ inputValue' = t
          /\ saveBtn' = [saveBtn EXCEPT !.disabled = (t = originalExtractedText)]
    /\ alertMsg' = ""
    /\ UNCHANGED <<dobVars, pageVars, verifyForm, view, formVars, submitVars, reviewVars, box,
                   currentDocKey, originalExtractedText, isEditingExtracted, saveVars>>

\* save-extracted click, up to `await fetch(ENDPOINTS.map, ...)`
SaveClick ==
    /\ view = "review"
    /\ currentDocKey # ""
    /\ saveBtn.visible /\ ~saveBtn.disabled
    /\ IF inputValue = originalExtractedText
       THEN /\ saveBtn' = [saveBtn EXCEPT !.visible = FALSE]
            /\ isEditingExtracted' = FALSE
            /\ UNCHANGED <<pendingSaves, saveCount>>
       ELSE /\ saveCount < MaxSaves
            /\ saveCount' = saveCount + 1
            /\ saveBtn' = [saveBtn EXCEPT !.disabled = TRUE]
            /\ pendingSaves' = Append(pendingSaves,
                   [key |-> currentDocKey,
                    request |-> MapRequest(inputValue, buildUserDob,
                                           docTypeMap(currentDocKey))])
            /\ UNCHANGED isEditingExtracted
    /\ alertMsg' = ""
    /\ UNCHANGED <<dobVars, pageVars, verifyForm, view, formVars, submitVars, reviewVars, box,
                   currentDocKey, originalExtractedText, inputValue, lastDob>>

RemoveAt(seq, i) == SubSeq(seq, 1, i - 1) \o SubSeq(seq, i + 1, Len(seq))

\* let dobConf = 0.6; if (normUser && normEdit) dobConf = normUser === normEdit ? 1.0 : 0.55
dobConf(normUser, normEdit) ==
    IF normUser # <<>> /\ normEdit # <<>>
    THEN (IF normUser = normEdit THEN Scale ELSE 550000)
    ELSE 600000

\* The DOB branch of the Save handler: normUser, normEdit and dobConf.
DobOfSave(userDob, newText) ==
    LET normUser == parseDob(trim(userDob))
        normEdit == parseDob(newText)
    IN  [userDob |-> trim(userDob), newText |-> newText, normUser |-> normUser,
         normEdit |-> normEdit, dobConf |-> dobConf(normUser, normEdit)]

SavedItem_fresh(obj, key, newText, fields, verification) ==
    Item("", newText, fields, verification, "")

\* reviewResults[currentDocKey] = { fileName: prev.fileName, url: prev.url,
\*                                  rawText: newText, fields, verification }
SavedItem(obj, key, newText, fields, verification) ==
    LET hasPrev == ObjHas(obj, key)
    IN  Item(IF hasPrev THEN ObjGet(obj, key).fileName ELSE "",
             newText, fields, verification,
             IF hasPrev THEN ObjGet(obj, key).url ELSE "")

\* The Save handler after a successful map-and-verify response.
SaveOk ==
    \E i \in 1..Len(pendingSaves) : \E resp \in ResponsesFor(pendingSaves[i].key) :
        LET newText == pendingSaves[i].request.raw_text
            isDob == currentDocKey = "dob"
            obj == submits[reviewResults].results
        IN  /\ reviewResults # 0
            /\ currentDocKey # ""
            /\ pendingSaves' = RemoveAt(pendingSaves, i)
            /\ lastDob' = IF isDob THEN DobOfSave(buildUserDob, newText) ELSE lastDob
            /\ submits' = [submits EXCEPT ![reviewResults].results =
                  ObjPut(obj, currentDocKey,
                     IF isDob
                     THEN SavedItem(obj, currentDocKey, newText,
                                    <<Field("dob", newText, lastDob'.dobConf)>>,
                                    Verification(lastDob'.dobConf, lastDob'.dobConf))
                     ELSE SavedItem(obj, currentDocKey, newText, resp.mapped,
                                    resp.verification))]
            /\ RenderReview(reviewResults, submits'[reviewResults].results)
            /\ OpenExtracted(currentDocKey, reviewResults, submits'[reviewResults].results)
            /\ alertMsg' = ""
            /\ UNCHANGED <<dobVars, pageVars, verifyForm, view, formVars, spinner, reviewResults, saveCount>>

\* The Save handler after a failed request: alert and re-enable the button.
SaveFail ==
    \E i \in 1..Len(pendingSaves) :
        /\ pendingSaves' = RemoveAt(pendingSaves, i)
        /\ saveBtn' = [saveBtn EXCEPT !.disabled = FALSE]
        /\ alertMsg' = SaveError
        /\ UNCHANGED <<dobVars, pageVars, verifyForm, view, formVars, submitVars, reviewVars, box,
                       currentDocKey, originalExtractedText, isEditingExtracted,
                       inputValue, saveCount, lastDob>>

DobOff ==
    /\ dobPc = "off"
    /\ dobIn = <<>>
    /\ dobOut = <<>>
    /\ dobAgain = <<>>

Init ==
    /\ DobOff
    /\ AppInit
    /\ DomOff
    /\ UserOff
    /\ MosipInit

Next ==
    \/ StartRegistration
    \/ TypeFormDob
    \/ TypeFormOthers
    \/ ContinueToUpload
    \/ SelectDoc
    \/ SubmitData
    \/ OcrOk
    \/ OcrFail
    \/ MapOk
    \/ MapFail
    \/ ViewText
    \/ EditExtracted
    \/ InputExtracted
    \/ SaveClick
    \/ SaveOk
    \/ SaveFail

Spec == Init /\ [][Next]_vars

\* A response to an OCR or map-and-verify request of submitData arrives.
Respond == OcrOk \/ OcrFail \/ MapOk \/ MapFail

\* The handlers of the applicant form and the upload page, and the responses
\* to the requests of submitData.  The handlers of the review page are left
\* out: they write neither view nor spinner nor the tasks of an invocation.
SubmitNext ==
    \/ StartRegistration
    \/ TypeFormDob
    \/ TypeFormOthers
    \/ ContinueToUpload
    \/ SelectDoc
    \/ SubmitData
    \/ OcrOk
    \/ OcrFail
    \/ MapOk
    \/ MapFail

\* Every request is answered: fetch settles each request, with a response or
\* with a failure, and the continuation of processDoc is then run.
SpecSubmit == Init /\ [][SubmitNext]_vars /\ WF_vars(Respond)

\* ------------------------------------------------------------------------
\* switchView over the elements of the page (SpecView)
\* ------------------------------------------------------------------------
\* No element: the result of getElementById for an id the page does not have.
NoElement == <<>>

\* The object literal `views`: each key with the id it is looked up by.
viewsTable ==
    <<
       [key |-> <<"d", "a", "s", "h", "b", "o", "a", "r", "d">>,
        id |-> <<"v", "i", "e", "w", "-", "d", "a", "s", "h", "b", "o", "a", "r", "d">>],
       [key |-> <<"f", "o", "r", "m">>,
        id |-> <<"v", "i", "e", "w", "-", "f", "o", "r", "m">>],
       [key |-> <<"u", "p", "l", "o", "a", "d">>,
        id |-> <<"v", "i", "e", "w", "-", "u", "p", "l", "o", "a", "d">>],
       [key |-> <<"v", "e", "r", "i", "f", "y">>,
        id |-> <<"v", "i", "e", "w", "-", "v", "e", "r", "i", "f", "y">>],
       [key |-> <<"s", "u", "c", "c", "e", "s", "s">>,
        id |-> <<"v", "i", "e", "w", "-", "s", "u", "c", "c", "e", "s", "s">>],
       [key |-> <<"r", "e", "v", "i", "e", "w">>,
        id |-> <<"v", "i", "e", "w", "-", "r", "e", "v", "i", "e", "w">>],
       [key |-> <<"m", "o", "s", "i", "p">>,
        id |-> <<"v", "i", "e", "w", "-", "m", "o", "s", "i", "p">>],
       [key |-> <<"m", "o", "s", "i", "p", "S", "t", "a", "t", "u", "s">>,
        id |-> <<"v", "i", "e", "w", "-", "m", "o", "s", "i", "p", "-", "s", "t", "a", "t", "u", "s">>] >>

ViewKeys == { viewsTable[i].key : i \in 1..Len(viewsTable) }

ViewIds == { viewsTable[i].id : i \in 1..Len(viewsTable) }

\* Elements of the page that carry the class d-none at one time or another:
\* the views, the loading spinner of the upload page and the MOSIP loading
\* indicator.  An element is written as its id.
DocumentIds ==
    ViewIds \cup
    { <<"l", "o", "a", "d", "i", "n", "g", "-", "s", "p", "i", "n", "n", "e", "r">>,
      <<"m", "o", "s", "i", "p", "-", "l", "o", "a", "d", "i", "n", "g">> }

getElementById(id) == IF id \in DocumentIds THEN id ELSE NoElement

\* views[key]: the element registered under key, NoElement for any other key.
views(key) ==
    IF key \in ViewKeys
    THEN getElementById(viewsTable[CHOOSE i \in 1..Len(viewsTable) : viewsTable[i].key = key].id)
    ELSE NoElement

\* s.indexOf(pat) + 1: position of the first occurrence of pat in s, 0 if none.
IndexOf(s, pat) ==
    LET hits == { i \in 1..(Len(s) - Len(pat) + 1) : SubSeq(s, i, i + Len(pat) - 1) = pat }
    IN  IF hits = {} THEN 0 ELSE CHOOSE i \in hits : \A j \in hits : i <= j

\* s.replace(pat, ''): the first occurrence of pat is removed.
RemoveFirst(s, pat) ==
    LET i == IndexOf(s, pat)
    IN  IF i = 0 THEN s
        ELSE SubSeq(s, 1, i - 1) \o SubSeq(s, i + Len(pat), Len(s))

ViewPrefix == <<"v", "i", "e", "w", "-">>

HideAll_none(hidden) == hidden

\* Object.values(views).forEach(el => el && el.classList.add('d-none'))
HideAll(hidden) ==
    hidden \cup ({ views(key) : key \in ViewKeys } \ {NoElement})

\* The elements with the class d-none after switchView(name), `hidden` being
\* those before the call.
switchView(hidden, name) ==
    LET direct == getElementById(name)
        key == RemoveFirst(name, ViewPrefix)
    IN  IF direct # NoElement THEN HideAll(hidden) \ {direct}
        ELSE IF views(key) # NoElement THEN HideAll(hidden) \ {views(key)}
        ELSE HideAll(hidden)

\* The other name of the same view: the key for an id, the id for a key.
OtherName(name) ==
    LET row == viewsTable[CHOOSE i \in 1..Len(viewsTable) :
                              name \in {viewsTable[i].key, viewsTable[i].id}]
    IN  IF name = row.id THEN row.key ELSE row.id

\* The page as loaded: its markup decides which elements start hidden.
ViewInit ==
    /\ DobOff
    /\ AppInit
    /\ UserOff
    /\ MosipInit
    /\ viewPc = "ready"
    /\ dNone \in SUBSET DocumentIds
    /\ viewName = <<>>
    /\ dNoneOther = dNone

SwitchViewCall ==
    /\ viewPc \in {"ready", "called"}
    /\ \E name \in ViewIds \cup ViewKeys :
          /\ viewName' = name
          /\ dNone' = switchView(dNone, name)
          /\ dNoneOther' = switchView(dNone, OtherName(name))
    /\ viewPc' = "called"
    /\ UNCHANGED <<dobVars, view, formVars, submitVars, reviewVars, boxVars, saveVars,
                   alertMsg, verifyForm, userVars, mosipVars>>

SpecView == ViewInit /\ [][SwitchViewCall]_vars

\* ------------------------------------------------------------------------
\* buildUserFromUI over the inputs of the form and of the upload page (SpecUser)
\* ------------------------------------------------------------------------
\* The fields of the user record other than name.
PlainFields == {"dob", "gender", "address", "email", "phone"}

\* Values of the inputs of the applicant form.
FormValues(id) ==
    CASE id = "firstName" -> {<<>>, TxtJohn}
      [] id = "middleName" -> {<<>>, <<" ">>}
      [] id = "lastName" -> {<<>>, <<"D", "o", "e">>}
      [] id = "dob" -> {<<>>, TxtIso}
      [] id = "gender" -> {<<>>, <<"F">>}
      [] id = "address" -> {<<>>, TxtElm}
      [] id = "email" -> {<<>>, <<"a", "@", "b">>}
      [] id = "phone" -> {<<>>, TxtPhone}

\* Values of the review inputs edit-name, edit-dob, ... of the upload page.
EditValues(field) ==
    CASE field = "name" -> {<<>>, <<" ">>, <<" ", "J", "o", "n", " ">>}
      [] field = "dob" -> {<<>>, <<"1", "9", "9", "1", "-", "0", "3", "-", "0", "4">>}
      [] field = "gender" -> {<<>>, <<"M">>}
      [] field = "address" -> {<<>>, TxtPune}
      [] field = "email" -> {<<>>, <<"c", "@", "d">>}
      [] field = "phone" -> {<<>>, <<"7", "7", "7">>}

\* a || b of two strings: the empty string is the only falsy one.
OrElse(a, b) == IF a # <<>> THEN a ELSE b

RECURSIVE JoinSpace(_)
\* parts.filter(Boolean).join(' ')
JoinSpace(parts) ==
    IF parts = <<>> THEN <<>>
    ELSE IF Head(parts) = <<>> THEN JoinSpace(Tail(parts))
    ELSE IF JoinSpace(Tail(parts)) = <<>> THEN Head(parts)
    ELSE Head(parts) \o <<" ">> \o JoinSpace(Tail(parts))

RECURSIVE CollapseSpaces(_)
\* s.replace(/\s+/g, ' ')
CollapseSpaces(s) ==
    IF s = <<>> THEN <<>>
    ELSE IF IsSpace(Head(s))
         THEN <<" ">> \o CollapseSpaces(TrimLeft(s))
         ELSE <<Head(s)>> \o CollapseSpaces(Tail(s))

\* [first, middle, last].filter(Boolean).join(' ').replace(/\s+/g, ' ').trim()
nameFromForm(form) ==
    trim(CollapseSpaces(JoinSpace(<<form.firstName, form.middleName, form.lastName>>)))

buildUserFromUI_form(form, edit) ==
    [name |-> nameFromForm(form), dob |-> form.dob, gender |-> form.gender,
     address |-> form.address, email |-> form.email, phone |-> form.phone]

buildUserFromUI(form, edit) ==
    [name |-> OrElse(OrElse(trim(edit.name), nameFromForm(form)), <<>>),
     dob |-> OrElse(OrElse(OrElse(edit.dob, <<>>), form.dob), <<>>),
     gender |-> OrElse(OrElse(OrElse(edit.gender, <<>>), form.gender), <<>>),
     address |-> OrElse(OrElse(OrElse(edit.address, <<>>), form.address), <<>>),
     email |-> OrElse(OrElse(OrElse(edit.email, <<>>), form.email), <<>>),
     phone |-> OrElse(OrElse(OrElse(edit.phone, <<>>), form.phone), <<>>)]

FormInputs ==
    { [firstName |-> f, middleName |-> m, lastName |-> l, dob |-> d,
       gender |-> g, address |-> a, email |-> e, phone |-> p] :
         f \in FormValues("firstName"), m \in FormValues("middleName"),
         l \in FormValues("lastName"), d \in FormValues("dob"),
         g \in FormValues("gender"), a \in FormValues("address"),
         e \in FormValues("email"), p \in FormValues("phone") }

EditInputs ==
    { [name |-> n, dob |-> d, gender |-> g, address |-> a, email |-> e, phone |-> p] :
         n \in EditValues("name"), d \in EditValues("dob"),
         g \in EditValues("gender"), a \in EditValues("address"),
         e \in EditValues("email"), p \in EditValues("phone") }

\* The inputs as the user has left them; the markup of the page decides
\* whether the review inputs start disabled and save-applicant hidden.
UserInit ==
    /\ DobOff
    /\ AppInit
    /\ DomOff
    /\ MosipInit
    /\ userPc = "loaded"
    /\ formInputs \in FormInputs
    /\ editInputs \in EditInputs
    /\ isEditingApplicant = FALSE
    /\ editDisabled \in BOOLEAN
    /\ saveApplicantHidden \in BOOLEAN
    /\ user = <<>>
    /\ userAt = "off"

\* edit-applicant click
EditApplicantClick ==
    /\ userPc \in {"loaded", "editing", "saved"}
    /\ userPc' = "editing"
    /\ isEditingApplicant' = TRUE
    /\ editDisabled' = FALSE
    /\ saveApplicantHidden' = FALSE
    /\ UNCHANGED <<dobVars, view, formVars, submitVars, reviewVars, boxVars, saveVars,
                   alertMsg, verifyForm, domVars, mosipVars, formInputs, editInputs, user, userAt>>

\* save-applicant click: the button is clicked while it is visible.
SaveApplicantClick ==
    /\ userPc \in {"loaded", "editing", "saved"}
    /\ ~saveApplicantHidden
    /\ userPc' = "saved"
    /\ isEditingApplicant' = FALSE
    /\ editDisabled' = TRUE
    /\ saveApplicantHidden' = TRUE
    /\ UNCHANGED <<dobVars, view, formVars, submitVars, reviewVars, boxVars, saveVars,
                   alertMsg, verifyForm, domVars, mosipVars, formInputs, editInputs, user, userAt>>

\* const user = buildUserFromUI()
BuildUser ==
    /\ userPc \in {"loaded", "editing", "saved"}
    /\ userPc' = "built"
    /\ userAt' = userPc
    /\ user' = buildUserFromUI(formInputs, editInputs)
    /\ UNCHANGED <<dobVars, view, formVars, submitVars, reviewVars, boxVars, saveVars,
                   alertMsg, verifyForm, domVars, mosipVars, formInputs, editInputs,
                   isEditingApplicant, editDisabled, saveApplicantHidden>>

UserNext ==
    \/ EditApplicantClick
    \/ SaveApplicantClick
    \/ BuildUser

SpecUser == UserInit /\ [][UserNext]_vars

\* ------------------------------------------------------------------------
\* submitToMOSIP (SpecMosip)
\* ------------------------------------------------------------------------
\* alert('Please process documents first before submitting to MOSIP')
ProcessFirst == "Please process documents first before submitting to MOSIP"

CannotConnect == "Cannot connect to MOSIP sandbox"

NoDocuments == "No documents to submit to MOSIP"

RegistrationFailed == "MOSIP registration failed"

\* The alert-danger block "Registration Failed" with err.message.
Failed(message) == [kind |-> "danger", message |-> message]

\* The alert-success block "Registration Successful!".
Successful == [kind |-> "success", message |-> ""]

\* Outcomes of fetch(ENDPOINTS.mosip.test): a response that is ok, one that
\* is not, and a rejected fetch.
TestResponses == {"ok", "error", "rejected"}

testMOSIPConnection_always(resp) == TRUE

\* The value testMOSIPConnection returns for the outcome resp of its fetch.
testMOSIPConnection(resp) == resp = "ok"

\* Outcomes of fetch(ENDPOINTS.mosip.integrate): a rejected fetch, or a
\* response with resp.ok, result.status and result.message || result.detail.
IntegrateResponses ==
    { [rejected |-> FALSE, ok |-> TRUE, status |-> "success", message |-> ""],
      [rejected |-> FALSE, ok |-> TRUE, status |-> "failed", message |-> "Verification failed"],
      [rejected |-> FALSE, ok |-> FALSE, status |-> "", message |-> ""],
      [rejected |-> TRUE, ok |-> FALSE, status |-> "", message |-> ""] }

\* !resp.ok || result.status !== 'success', or the fetch was rejected
IntegrateFailed(resp) == resp.rejected \/ ~resp.ok \/ resp.status # "success"

\* err.message of the error a failed integrate request ends in, without the
\* confidence the response may carry.
IntegrateError(resp) ==
    IF resp.rejected THEN "Failed to fetch"
    ELSE IF resp.message # "" THEN resp.message ELSE RegistrationFailed

\* The document slots submitToMOSIP looks at, with the type it gives each.
MosipOrder ==
    << [key |-> "name", type |-> "POI"], [key |-> "address", type |-> "POA"],
       [key |-> "dob", type |-> "DOB"] >>

\* documents: one entry for each slot that has a selected file and an entry
\* in reviewResults (obj).
MosipDocuments(docs, obj) ==
    LET rows == [i \in 1..Len(MosipOrder) |->
                    [file |-> docs[MosipOrder[i].key], type |-> MosipOrder[i].type,
                     has |-> docs[MosipOrder[i].key] # "" /\ ObjHas(obj, MosipOrder[i].key)]]
        kept == SelectSeq(rows, LAMBDA r : r.has)
    IN  [i \in 1..Len(kept) |-> [file |-> kept[i].file, type |-> kept[i].type]]

NoMosipRequest == [file |-> "", type |-> ""]

\* catch and finally of submitToMOSIP for invocation i, test being the outcome
\* of its connection test.
MosipFail(i, test, message) ==
    /\ mosipCalls' = [mosipCalls EXCEPT ![i].pc = "done", ![i].test = test,
                                        ![i].outcome = "failed"]
    /\ mosipResult' = Failed(message)
    /\ mosipLoading' = FALSE

\* submit-to-mosip click, up to the fetch of testMOSIPConnection.
SubmitToMosip ==
    /\ IF reviewResults = 0
       THEN /\ alertMsg' = ProcessFirst
            /\ UNCHANGED <<view, mosipVars>>
       ELSE /\ Len(mosipCalls) < MaxCalls
            /\ alertMsg' = ""
            /\ view' = "mosip"
            /\ mosipLoading' = TRUE
            /\ mosipResult' = [kind |-> "info", message |-> "Submitting to MOSIP..."]
            /\ mosipStatus' = "Testing MOSIP..."
            /\ mosipCalls' = Append(mosipCalls, [pc |-> "testing", test |-> "",
                                                 request |-> NoMosipRequest, outcome |-> ""])
            /\ UNCHANGED mosipStored
    /\ UNCHANGED <<dobVars, domVars, userVars, verifyForm, formVars, submitVars, reviewVars,
                   boxVars, saveVars>>

\* The fetch of testMOSIPConnection settles for an invocation: submitToMOSIP
\* runs on to the integrate request or to its catch.
MosipTested ==
    /\ \E i \in 1..Len(mosipCalls) : \E resp \in TestResponses :
          /\ mosipCalls[i].pc = "testing"
          /\ mosipStatus' = IF resp = "ok" THEN "Connected to MOSIP" ELSE "MOSIP offline"
          /\ LET documents == MosipDocuments(selectedDocs, submits[reviewResults].results)
             IN  IF ~testMOSIPConnection(resp) THEN MosipFail(i, resp, CannotConnect)
                 ELSE IF documents = <<>> THEN MosipFail(i, resp, NoDocuments)
                 ELSE /\ mosipCalls' = [mosipCalls EXCEPT ![i].pc = "integrating",
                                                          ![i].test = resp,
                                                          ![i].request = documents[1]]
                      /\ UNCHANGED <<mosipLoading, mosipResult>>
    /\ alertMsg' = ""
    /\ UNCHANGED <<dobVars, domVars, userVars, verifyForm, view, formVars, submitVars,
                   reviewVars, boxVars, saveVars, mosipStored>>

\* The integrate request of an invocation settles.
MosipIntegrated ==
    /\ \E i \in 1..Len(mosipCalls) : \E resp \in IntegrateResponses :
          /\ mosipCalls[i].pc = "integrating"
          /\ IF IntegrateFailed(resp)
             THEN /\ MosipFail(i, mosipCalls[i].test, IntegrateError(resp))
                  /\ UNCHANGED <<view, mosipStored>>
             ELSE /\ mosipCalls' = [mosipCalls EXCEPT ![i].pc = "done",
                                                      ![i].outcome = "registered"]
                  /\ view' = "mosip"
                  /\ mosipResult' = Successful
                  /\ mosipStored' = TRUE
                  /\ mosipLoading' = FALSE
    /\ alertMsg' = ""
    /\ UNCHANGED <<dobVars, domVars, userVars, verifyForm, formVars, submitVars,
                   reviewVars, boxVars, saveVars, mosipStatus>>

\* The handlers of the form and of the upload page and the responses to the
\* requests of submitData, which give reviewResults and selectedDocs their
\* values, and submitToMOSIP.  The handlers of the review page are left out:
\* they add no entry to a results object and remove none.
MosipNext ==
    \/ StartRegistration
    \/ TypeFormDob
    \/ TypeFormOthers
    \/ ContinueToUpload
    \/ SelectDoc
    \/ SubmitData
    \/ OcrOk
    \/ OcrFail
    \/ MapOk
    \/ MapFail
    \/ SubmitToMosip
    \/ MosipTested
    \/ MosipIntegrated

SpecMosip == Init /\ [][MosipNext]_vars

\* ------------------------------------------------------------------------
\* Properties of the review page (checked under Spec)
\* ------------------------------------------------------------------------
Warning == "bg-warning text-dark"

\* C1: a badge has the warning style exactly when its score is below 0.60,
\* in the confidence panel and in the extracted-text box.
C1_BadgeThreshold ==
    /\ \A i \in 1..Len(confidencePanel) :
          (confidencePanel[i].class = Warning) <=> BelowSixty(confidencePanel[i].score)
    /\ box.open => ((box.class = Warning) <=> BelowSixty(box.score))

\* A DOB edit has been saved.
DobSaved == lastDob.dobConf # NoNumber

TxtIsoMonthFirst == <<"1", "9", "9", "0", "-", "0", "1", "-", "0", "2">>

\* C3 as stated: "DOB: 01/02/1990" and "1990-02-01" normalise to the same
\* canonical date 1990-02-01 and their comparison scores 1.0.
C3_SameCanonicalDate ==
    (DobSaved /\ lastDob.newText = TxtDob0102 /\ lastDob.userDob = TxtIso) =>
        /\ lastDob.normEdit = TxtIso
        /\ lastDob.normUser = TxtIso
        /\ lastDob.dobConf = Scale

\* C3 amended: "DOB: 01/02/1990" is read month-first as 1990-01-02, which is
\* not the canonical date 1990-02-01 of the user's "1990-02-01", so their
\* comparison does not score 1.0; "DOB: 02/01/1990" is the text that does.
C3_MonthFirstMismatch ==
    (DobSaved /\ lastDob.userDob = TxtIso) =>
        /\ lastDob.normUser = TxtIso
        /\ lastDob.newText = TxtDob0102 =>
              lastDob.normEdit = TxtIsoMonthFirst /\ lastDob.dobConf # Scale
        /\ lastDob.newText = TxtDob0201 =>
              lastDob.normEdit = TxtIso /\ lastDob.dobConf = Scale

C3_Witness ==
    /\ DobSaved
    /\ lastDob.newText = TxtDob0102
    /\ lastDob.userDob = TxtIso
    /\ lastDob.normEdit = TxtIsoMonthFirst

\* C4: the DOB score is 1.0 if the two canonical dates are equal and 0.0
\* otherwise, never a value in between.
C4_DobBinary ==
    (DobSaved /\ lastDob.normUser # <<>> /\ lastDob.normEdit # <<>>) =>
        lastDob.dobConf = IF lastDob.normUser = lastDob.normEdit THEN Scale ELSE 0

\* The stored DOB document, when it is the one of the last DOB save.
DobItemSaved ==
    /\ DobSaved
    /\ reviewResults # 0
    /\ ObjHas(submits[reviewResults].results, "dob")
    /\ ObjGet(submits[reviewResults].results, "dob").rawText = lastDob.newText

\* C5: when a canonical date is empty, the DOB field is excluded: no DOB
\* score and no overall score is produced.
C5_EmptyDobExcluded ==
    (DobItemSaved /\ (lastDob.normUser = <<>> \/ lastDob.normEdit = <<>>)) =>
        LET item == ObjGet(submits[reviewResults].results, "dob")
        IN  /\ item.verification.score = NoNumber
            /\ item.verification.overall_confidence = NoNumber
            /\ \A i \in 1..Len(item.fields) : item.fields[i].confidence = NoNumber

\* The fields a document type may show.
AllowedFields(key) ==
    CASE key = "name" -> {"name", "full_name"}
      [] key = "address" -> {"address", "addr", "city", "state", "pincode"}
      [] key = "dob" -> {"dob", "date_of_birth", "date-of-birth", "birth_date",
                         "birthdate", "date"}
      [] OTHER -> FieldNames

LineKeys(lines) == UNION { {lines[i].keys[j] : j \in 1..Len(lines[i].keys)} :
                           i \in 1..Len(lines) }

\* C9: the extracted-text panel of a name, address or DOB document shows
\* fields of the type's allowed set only, whatever the response contains
\* (both versions of the filter).
C9_FilteredByType ==
    /\ (box.open /\ currentDocKey # "") =>
           LineKeys(box.lines) \subseteq AllowedFields(currentDocKey)
    /\ docListObj # 0 =>
           \A i \in 1..Len(submits[docListObj].results) :
               LET e == submits[docListObj].results[i]
               IN  LineKeys(FrontendLines(e.k, e.item.fields)) \subseteq AllowedFields(e.k)

C9_Witness ==
    /\ box.open
    /\ currentDocKey = "name"
    /\ HasField(ObjGet(submits[docListObj].results, "name").fields, "phone")
    /\ LineKeys(box.lines) = {"name"}

\* The fields of the allowed set of `key`, in order.
OwnFields(key, fields) == SelectSeq(fields, LAMBDA f : f.k \in AllowedFields(key))

PanelScore(panel, key) == panel[CHOOSE i \in 1..Len(panel) : panel[i].k = key].score

HasRow(panel, key) == \E i \in 1..Len(panel) : panel[i].k = key

\* C10: two responses for a name, address or DOB document that differ only
\* in fields outside the type's allowed set give the same confidence.
C10_OwnFieldOnly ==
    [][ \A key \in {"name", "address", "dob"} :
          (/\ reviewResults # 0
           /\ reviewResults' = reviewResults
           /\ HasRow(confidencePanel, key) /\ HasRow(confidencePanel', key)
           /\ ObjHas(submits[reviewResults].results, key)
           /\ ObjHas(submits'[reviewResults].results, key)
           /\ LET old == ObjGet(submits[reviewResults].results, key)
                  new == ObjGet(submits'[reviewResults].results, key)
              IN  /\ OwnFields(key, old.fields) = OwnFields(key, new.fields)
                  /\ old.verification = new.verification)
          => PanelScore(confidencePanel', key) = PanelScore(confidencePanel, key)
      ]_vars

\* The stored item of the document shown in the extracted-text box.
OpenItem == ObjGet(submits[box.results].results, currentDocKey)

BoxShowsItem ==
    /\ box.open
    /\ currentDocKey # ""
    /\ box.results # 0
    /\ ObjHas(submits[box.results].results, currentDocKey)

\* C11: every value shown in the extracted-text box is the value of a field
\* of the document's mapped result; none comes from the raw OCR text.
C11_MappedOnly ==
    BoxShowsItem =>
        \A k \in LineKeys(box.lines) :
            \E i \in 1..Len(OpenItem.fields) :
                /\ LowerKey(OpenItem.fields[i].k) = k
                /\ trim(OpenItem.fields[i].value) # <<>>

HandwrittenOpen == BoxShowsItem /\ currentDocKey = "handwritten"

\* The box has the line `label: val` of the field named k.
ShowsField(k, val) ==
    \E i \in 1..Len(box.lines) :
        /\ box.lines[i].keys = <<LowerKey(k)>>
        /\ box.lines[i].text = labelMap(LowerKey(k)) \o <<":", " ">> \o val

FirstOfName(fields, i) ==
    CHOOSE j \in 1..i :
        /\ LowerKey(fields[j].k) = LowerKey(fields[i].k)
        /\ normVal(fields[j].k, fields[j].value) # <<>>
        /\ \A h \in 1..(j - 1) :
              ~(/\ LowerKey(fields[h].k) = LowerKey(fields[i].k)
                /\ normVal(fields[h].k, fields[h].value) # <<>>)

NoData(item) == item.fields = <<>> /\ item.verification = NoVerification

\* C13: a document with zero available fields and no verification score is
\* not presented as the 0% low-confidence badge of a failed comparison.
C13_InsufficientData ==
    /\ reviewResults # 0 =>
          \A i \in 1..Len(confidencePanel) :
              LET row == confidencePanel[i]
                  obj == submits[reviewResults].results
              IN  (ObjHas(obj, row.k) /\ NoData(ObjGet(obj, row.k))) =>
                      ~(row.pct = 0 /\ row.class = Warning)
    /\ (BoxShowsItem /\ NoData(OpenItem)) => ~(box.pct = 0 /\ box.class = Warning)

\* Every request of invocation n has been answered.
Finished(n) ==
    /\ submits[n].pc = "settled"
    /\ \A k \in Keys : submits[n].tasks[k] \in {"none", "done", "failed"}

\* C14: once the requests of a submission are answered, every document whose
\* requests succeeded is listed in the review with its confidence, whether
\* or not another document failed.
C14_IndependentDocs ==
    \A n \in 1..Len(submits) :
        (Finished(n) /\ reviewResults = n) =>
            \A k \in Keys :
                submits[n].tasks[k] = "done" =>
                    InSeq(k, docList) /\ HasRow(confidencePanel, k)

\* C15: before any edit is saved, each entry results[key] of a submission
\* holds the file name of the file selected for key, the raw text of key's
\* OCR response and the fields and verification of key's map-and-verify
\* response, and there is one entry per processed document.
C15_KeyedPerDocument ==
    saveCount = 0 =>
        \A n \in 1..Len(submits) :
            LET sub == submits[n]
            IN  /\ \A i \in 1..Len(sub.results) :
                      LET k == sub.results[i].k
                          item == sub.results[i].item
                      IN  /\ sub.tasks[k] = "done"
                          /\ item.fileName = sub.files[k]
                          /\ item.fileName \in FilesFor(k)
                          /\ item.rawText = sub.raw[k]
                          /\ item.rawText \in RawTextsFor(k)
                          /\ Response(item.fields, item.verification) \in ResponsesFor(k)
                          /\ \A j \in 1..Len(sub.results) : sub.results[j].k = k => j = i
                /\ \A k \in Keys : sub.tasks[k] = "done" => ObjHas(sub.results, k)

\* Two documents were processed and the later one in list order answered first.
C15_Witness ==
    /\ saveCount = 0
    /\ Len(submits) = 1
    /\ Len(submits[1].results) = 2
    /\ submits[1].results[1].k = "address"
    /\ submits[1].results[2].k = "name"

\* A step in which the Save handler has handled a successful response.
SaveSucceeded == Len(pendingSaves') < Len(pendingSaves) /\ saveBtn'.disabled

\* A step in which the Save handler has sent a request.
SaveSent == Len(pendingSaves') > Len(pendingSaves)

\* C16: a save of changed text sends one map-and-verify request with the new
\* text, the user record and the document's type, and when it succeeds the
\* document's stored fields and verification and its displayed confidence
\* are those of the response.
C16_SaveReruns ==
    [][ /\ SaveSent =>
              pendingSaves' = Append(pendingSaves,
                  [key |-> currentDocKey,
                   request |-> MapRequest(inputValue, buildUserDob,
                                          docTypeMap(currentDocKey))])
        /\ SaveSucceeded =>
              \E i \in 1..Len(pendingSaves) :
                  \E resp \in ResponsesFor(pendingSaves[i].key) :
                      LET doc == pendingSaves[i].key
                          item == ObjGet(submits'[reviewResults].results, doc)
                      IN  /\ pendingSaves' = RemoveAt(pendingSaves, i)
                          /\ item.rawText = pendingSaves[i].request.raw_text
                          /\ item.fields = resp.mapped
                          /\ item.verification = resp.verification
                          /\ HasRow(confidencePanel', doc)
                          /\ PanelScore(confidencePanel', doc)
                                 = ScoreOf(resp.mapped, resp.verification)
      ]_vars

\* The document type of each document slot.
SlotType(key) ==
    CASE key = "name" -> "aadhar"
      [] key = "address" -> "dl"
      [] key = "dob" -> "birth"
      [] key = "handwritten" -> "handwritten"

\* C17: every map-and-verify request of submitData and of Save carries the
\* document type of its slot (both versions of docTypeMap).
C17_ClosedVocabulary ==
    /\ \A n \in 1..Len(submits), k \in Keys :
          submits[n].mapReq[k] # NoRequest =>
              /\ submits[n].mapReq[k].document_type = SlotType(k)
              /\ docTypeMapFrontend(k) = SlotType(k)
    /\ \A i \in 1..Len(pendingSaves) :
          /\ pendingSaves[i].request.document_type = SlotType(pendingSaves[i].key)
          /\ docTypeMapFrontend(pendingSaves[i].key) = SlotType(pendingSaves[i].key)

RECURSIVE ConfidenceSum(_, _)
\* Sum of the confidence values of the first n fields, a missing one being 1.0.
ConfidenceSum(fields, n) ==
    IF n = 0 THEN 0
    ELSE ConfidenceSum(fields, n - 1)
            + (IF fields[n].confidence = NoNumber THEN Scale ELSE fields[n].confidence)

\* The fraction score = <<num, den>> equals the fraction of a / b units of
\* 1/Scale (den is a whole number of units, or the score is zero).
SameFraction(score, a, b) ==
    IF score[1] = 0 \/ a = 0 THEN score[1] = a
    ELSE /\ score[2] % Scale = 0
         /\ score[1] * b = a * (score[2] \div Scale)

\* The shown score <<num, den>> and percentage are those of the item.
ScoreAsClaimed(item, score, pct) ==
    LET v == item.verification
        n == Len(item.fields)
    IN  /\ IF v.score # NoNumber THEN SameFraction(score, v.score, 1)
           ELSE IF v.overall_confidence # NoNumber
                THEN SameFraction(score, v.overall_confidence, 1)
           ELSE IF n = 0 THEN score[1] = 0
           ELSE SameFraction(score, ConfidenceSum(item.fields, n), n)
        /\ score[2] > 0 /\ 0 <= score[1] /\ score[1] <= score[2]
        /\ pct \in 0..100
        /\ 200 * score[1] - score[2] < 2 * pct * score[2]
        /\ 2 * pct * score[2] <= 200 * score[1] + score[2]

\* C18: the score of a document is verification.score, else
\* verification.overall_confidence, else the mean confidence of the fields
\* (missing counted 1.0, 0 without fields); it lies in [0,1] and the
\* percentage shown is that score rounded, in 0..100.
C18_ScoreFallback ==
    /\ reviewResults # 0 =>
          \A i \in 1..Len(confidencePanel) :
              LET row == confidencePanel[i]
                  obj == submits[reviewResults].results
              IN  ObjHas(obj, row.k) =>
                      ScoreAsClaimed(ObjGet(obj, row.k), row.score, row.pct)
    /\ BoxShowsItem => ScoreAsClaimed(OpenItem, box.score, box.pct)

C18_Witness ==
    /\ BoxShowsItem
    /\ OpenItem.verification = NoVerification
    /\ \E i \in 1..Len(OpenItem.fields) : OpenItem.fields[i].confidence = NoNumber
    /\ box.pct = 90

\* C19: the view leaves the form for the upload page only when the form is
\* valid (every required input filled), and a Continue click on an invalid
\* form changes neither the view nor the editable review inputs.
C19_FormGate ==
    [][ view = "form" =>
          /\ view' = "upload" => (formFilled /\ formDob # <<>> /\ editDob' = formDob)
          /\ ~(formFilled /\ formDob # <<>>) => (view' = "form" /\ editDob' = editDob)
      ]_vars

\* The upload page was reached with the form's date of birth copied.
C19_Witness == view = "upload" /\ formFilled /\ formDob # <<>> /\ editDob = formDob

\* C20: a document's map-and-verify request is sent only after its OCR
\* response came back ok and carries that response's raw text; after a failed
\* OCR response, and before any, the document has no map request and
\* processDoc stores no result entry for it (entries written by a saved edit
\* are not processDoc's).
C20_OcrThenMap ==
    \A n \in 1..Len(submits), k \in Keys :
        LET sub == submits[n]
        IN  /\ sub.mapReq[k] # NoRequest =>
                  /\ sub.ocrRes[k].status = "ok"
                  /\ sub.mapReq[k].raw_text = sub.ocrRes[k].raw
                  /\ sub.mapReq[k].raw_text \in RawTextsFor(k)
            /\ sub.ocrRes[k].status # "ok" =>
                  /\ sub.mapReq[k] = NoRequest
                  /\ sub.tasks[k] # "done"
                  /\ saveCount = 0 => ~ObjHas(sub.results, k)
            /\ sub.ocrRes[k].status = "failed" => sub.tasks[k] = "failed"
            /\ (saveCount = 0 /\ ObjHas(sub.results, k)) => sub.mapReq[k] # NoRequest

\* One document's OCR failed and another document's map request was sent.
C20_Witness ==
    \E n \in 1..Len(submits), k, k2 \in Keys :
        /\ submits[n].ocrRes[k].status = "failed"
        /\ submits[n].mapReq[k2] # NoRequest
        /\ ObjHas(submits[n].results, k2)

\* The entries of the object `after` are those of `before` but for key k.
OnlyEntryChanged(before, after, k) ==
    /\ \A j \in 1..Len(before) :
          before[j].k # k => ObjHas(after, before[j].k)
                             /\ ObjGet(after, before[j].k) = before[j].item
    /\ \A j \in 1..Len(after) : after[j].k # k => ObjHas(before, after[j].k)

\* C21: when a save request started while document A was open succeeds, the
\* new raw text is written to the entry of A and the entry of no other
\* document changes, also when another document was opened meanwhile.
C21_StoredUnderEdited ==
    [][ SaveSucceeded =>
          \E i \in 1..Len(pendingSaves) :
              LET doc == pendingSaves[i].key
                  before == submits[reviewResults].results
                  after == submits'[reviewResults].results
              IN  /\ pendingSaves' = RemoveAt(pendingSaves, i)
                  /\ ObjHas(after, doc)
                  /\ ObjGet(after, doc).rawText = pendingSaves[i].request.raw_text
                  /\ OnlyEntryChanged(before, after, doc)
      ]_vars

\* C22: while a save request is in flight the Save button is disabled and
\* no second save request is in flight.
C22_OneSaveInFlight ==
    pendingSaves # <<>> => (saveBtn.disabled /\ Len(pendingSaves) = 1)

\* A request started by submitData is still in flight.
RequestInFlight ==
    \E n \in 1..Len(submits), k \in Keys : submits[n].tasks[k] \in {"ocr", "map"}

\* C23: the loading spinner is visible whenever an OCR or map-and-verify
\* request started by submitData is in flight.
C23_SpinnerWhileInFlight == RequestInFlight => spinner

\* C24: after a successful save of the text T edited for the open DOB
\* document, the extracted-text panel and its input show exactly T.
C24_SaveRoundTrip ==
    [][ \A i \in 1..Len(pendingSaves) :
          ( /\ SaveSucceeded
            /\ pendingSaves' = RemoveAt(pendingSaves, i)
            /\ pendingSaves[i].key = "dob"
            /\ currentDocKey = "dob" ) =>
              /\ box'.text = pendingSaves[i].request.raw_text
              /\ inputValue' = pendingSaves[i].request.raw_text
      ]_vars

\* The keys of the rows of a confidence panel, in their order.
RowKeys(panel) == [i \in 1..Len(panel) |-> panel[i].k]

\* C29: when every document of a submission succeeded, the rendered document
\* list and confidence panel hold the documents in the order in which
\* their requests were started, whatever the order of the responses.
C29_OrderIndependent ==
    \A n \in 1..Len(submits) :
        (submits[n].pc = "settled" /\ AllDone(submits[n]) /\ docListObj = n) =>
            /\ docList = ListedKeys(submits[n].results)
            /\ RowKeys(confidencePanel) = ListedKeys(submits[n].results)

\* A step in which the Save handler has handled a failed request.
SaveFailed == Len(pendingSaves') < Len(pendingSaves) /\ ~saveBtn'.disabled

\* C30: a successful save writes the entry of the open document only, and
\* that entry keeps the file name and url it had; a failed save leaves the
\* results object as it was.
C30_SaveFrame ==
    [][ LET before == submits[reviewResults].results
            after == submits'[reviewResults].results
        IN  /\ SaveSucceeded =>
                  /\ reviewResults' = reviewResults
                  /\ ObjHas(after, currentDocKey)
                  /\ OnlyEntryChanged(before, after, currentDocKey)
                  /\ ObjHas(before, currentDocKey) =>
                        /\ ObjGet(after, currentDocKey).fileName
                               = ObjGet(before, currentDocKey).fileName
                        /\ ObjGet(after, currentDocKey).url
                               = ObjGet(before, currentDocKey).url
            /\ SaveFailed => (reviewResults' = reviewResults /\ after = before)
      ]_vars

\* An edit of the open document was saved while two documents were listed.
C30_Witness ==
    /\ reviewResults # 0
    /\ currentDocKey # ""
    /\ pendingSaves = <<>>
    /\ Len(submits[reviewResults].results) = 2
    /\ ObjHas(submits[reviewResults].results, currentDocKey)
    /\ OpenItem.rawText \in TypedTexts(currentDocKey)
    /\ OpenItem.fileName \in FilesFor(currentDocKey)

\* C28: once two overlapping invocations of submitData have both completed,
\* reviewResults and the rendered review are those of the invocation
\* started last.
C28_LatestWins ==
    (Len(submits) >= 2 /\ \A n \in 1..Len(submits) : submits[n].pc = "settled") =>
        /\ reviewResults = Len(submits)
        /\ docListObj = Len(submits)

\* C27: if every request is answered, every invocation of submitData that
\* started requests ends with the spinner hidden and the review view shown,
\* whether its requests succeeded or failed.
C27_SubmitEnds ==
    \A n \in 1..MaxDocs :
        (Len(submits) >= n /\ submits[n].pc = "awaiting")
            ~> (Len(submits) >= n /\ submits[n].pc = "settled"
                /\ ~spinner /\ view = "review")

\* An invocation ended after one of its requests failed while another of
\* its documents was still being processed.
C27_Witness ==
    \E n \in 1..Len(submits), k, k2 \in Keys :
        /\ submits[n].pc = "settled"
        /\ submits[n].tasks[k] = "failed"
        /\ submits[n].tasks[k2] \in {"ocr", "map"}
        /\ ~spinner
        /\ view = "review"

\* No document input holds a file.
NoneSelected == \A k \in Keys : selectedDocs[k] = ""

\* C26: submitData called with no document selected asks the user to upload
\* a document and leaves the view, the spinner, reviewResults, the selected
\* documents and the requests as they were.
C26_NothingSelected ==
    [][ /\ (view = "upload" /\ NoneSelected /\ selectedDocs' = selectedDocs) =>
              alertMsg' = UploadPrompt
        /\ alertMsg' = UploadPrompt =>
              /\ NoneSelected
              /\ UNCHANGED <<view, spinner, reviewResults, selectedDocs, submits>>
      ]_vars

\* submitData was called on the upload page with no document selected.
C26_Witness ==
    /\ alertMsg = UploadPrompt
    /\ view = "upload"
    /\ NoneSelected
    /\ submits = <<>>
    /\ ~spinner

\* C25: once the review of a submission is rendered, every document whose
\* map-and-verify response carried verification notes has the warning with
\* those notes on display.
C25_NotesShown ==
    \A n \in 1..Len(submits) :
        (submits[n].pc = "settled" /\ reviewResults = n) =>
            \A i \in 1..Len(submits[n].results) :
                LET item == submits[n].results[i].item
                IN  item.verification.notes # <<>> => verifyForm = renderForm(item)

\* ------------------------------------------------------------------------
\* Properties of parseDob (checked under SpecDob)
\* ------------------------------------------------------------------------
InParts == DobParts(dobIn)

\* The year is the last numeric component: the second and the fourth branch.
YearLast ==
    /\ Len(InParts) >= 3
    /\ ~FourDigits(InParts[1])
    /\ (FourDigits(InParts[3]) \/ ~FourDigits(InParts[2]))

LastYear == IF FourDigits(InParts[3]) \/ InParts[3] >= 100
            THEN InParts[3] ELSE 2000 + InParts[3]

DayFirst == InParts[1] > 12 /\ InParts[1] <= 31

ReadMonth == IF DayFirst THEN InParts[2] ELSE InParts[1]

ReadDay == IF DayFirst THEN InParts[1] ELSE InParts[2]

\* C2: with the year last, a first component above 12 that is a valid day
\* is read day-first, anything else month-first, and the result is
\* year-month-day of that reading (empty when the reading is no date).
C2_DayFirstRule ==
    (dobPc = "done" /\ YearLast) =>
        dobOut = IF ReadMonth \in 1..12 /\ ReadDay \in 1..31
                 THEN StringOf(LastYear) \o <<"-">> \o pad(ReadMonth)
                          \o <<"-">> \o pad(ReadDay)
                 ELSE <<>>

C2_Witness ==
    /\ dobPc = "done"
    /\ YearLast
    /\ DayFirst
    /\ dobOut # <<>>

\* C6: parseDob(parseDob(x)) = parseDob(x).
C6_Idempotent == dobPc = "done" => dobAgain = dobOut

\* The two month/day readings of the numeric groups are both no date.
NoValidReading ==
    LET ymd == AssignYMD(InParts)
    IN  /\ ~(ymd[2] \in 1..12 /\ ymd[3] \in 1..31)
        /\ ~(ymd[3] \in 1..12 /\ ymd[2] \in 1..31)

\* C7: parseDob returns a string for every text, and the empty string when
\* the text has fewer than three numeric groups or no reading is a date.
C7_Total ==
    dobPc = "done" =>
        /\ dobOut \in Seq({"-"} \cup {DigitChars[i] : i \in 1..10})
        /\ (Len(InParts) < 3 \/ NoValidReading) => dobOut = <<>>

C7_Witness ==
    /\ dobPc = "done"
    /\ Len(InParts) >= 3
    /\ NoValidReading
    /\ dobOut = <<>>

\* C8: a non-empty result is YYYY-MM-DD with month 01..12 and day 01..31,
\* and a two-digit year yy in last position is emitted as 2000 + yy.
C8_CanonicalForm ==
    (dobPc = "done" /\ dobOut # <<>>) =>
        /\ Len(dobOut) = 10
        /\ \A i \in {1, 2, 3, 4, 6, 7, 9, 10} : IsDigit(dobOut[i])
        /\ dobOut[5] = "-" /\ dobOut[8] = "-"
        /\ NumberOf(SubSeq(dobOut, 6, 7)) \in 1..12
        /\ NumberOf(SubSeq(dobOut, 9, 10)) \in 1..31
        /\ (YearLast /\ ~FourDigits(InParts[3]) /\ InParts[3] < 100) =>
               NumberOf(SubSeq(dobOut, 1, 4)) = 2000 + InParts[3]

\* ------------------------------------------------------------------------
\* Properties of switchView (checked under SpecView)
\* ------------------------------------------------------------------------
\* The views that do not have the class d-none.
VisibleViews == ViewIds \ dNone

\* The id of the view that `name` names, by its id or by its key.
RequestedView(name) ==
    CHOOSE id \in ViewIds :
        \E i \in 1..Len(viewsTable) :
            viewsTable[i].id = id /\ name \in {viewsTable[i].key, viewsTable[i].id}

\* The names the application itself calls switchView with.
AppCallNames ==
    { ViewPrefix \o <<"f", "o", "r", "m">>,
      ViewPrefix \o <<"u", "p", "l", "o", "a", "d">>,
      ViewPrefix \o <<"r", "e", "v", "i", "e", "w">>,
      ViewPrefix \o <<"d", "a", "s", "h", "b", "o", "a", "r", "d">>,
      ViewPrefix \o <<"m", "o", "s", "i", "p">> }

\* C31: after a switchView call exactly one registered view is visible, the
\* requested one, and every other view is hidden; the call with the id of a
\* view and the call with its key leave the same elements hidden.
C31_OneViewVisible ==
    viewPc = "called" =>
        /\ VisibleViews = {RequestedView(viewName)}
        /\ dNoneOther = dNone

\* A call the application makes, by the id of the MOSIP view, from a page
\* that showed another view: the MOSIP view alone is visible.
C31_Witness ==
    /\ viewPc = "called"
    /\ viewName \in AppCallNames
    /\ viewName = ViewPrefix \o <<"m", "o", "s", "i", "p">>
    /\ VisibleViews = {viewName}
    /\ DocumentIds \ ViewIds \subseteq dNone

\* ------------------------------------------------------------------------
\* Properties of buildUserFromUI (checked under SpecUser)
\* ------------------------------------------------------------------------
\* The value of the review input if it is not empty, else the form's value.
ReviewFirst(review, form) == IF Len(review) > 0 THEN review ELSE form

\* C32: for each of dob, gender, address, email and phone the record holds
\* the value of the review input when it is not empty and the value of the
\* form otherwise; its name is the value of edit-name with the surrounding
\* white space removed when that is not empty, and the name joined from the
\* form otherwise; whether or not save-applicant was clicked.
C32_ReviewFirst ==
    userPc = "built" =>
        /\ \A f \in PlainFields : user[f] = ReviewFirst(editInputs[f], formInputs[f])
        /\ user.name = ReviewFirst(trim(editInputs.name), nameFromForm(formInputs))

\* The record is built while the review inputs are being edited, before
\* save-applicant is clicked: the typed address and the trimmed name are in it.
C32_Witness ==
    /\ userPc = "built"
    /\ userAt = "editing"
    /\ editInputs.name = <<" ", "J", "o", "n", " ">>
    /\ user.name = TxtJon
    /\ editInputs.address = TxtPune
    /\ formInputs.address = TxtElm
    /\ user.address = TxtPune
    /\ editInputs.dob = <<>>
    /\ user.dob = TxtIso

\* C32 as stated: each of the six fields, name among them, holds the value
\* of the review input when that value is not empty.
C32_AsStated ==
    userPc = "built" =>
        \A f \in {"name"} \cup PlainFields :
            user[f] = ReviewFirst(editInputs[f],
                                  IF f = "name" THEN nameFromForm(formInputs)
                                  ELSE formInputs[f])

\* ------------------------------------------------------------------------
\* Properties of submitToMOSIP (checked under SpecMosip)
\* ------------------------------------------------------------------------
\* Invocation i sends its integrate request in this step.
RequestSent(i) ==
    /\ i <= Len(mosipCalls')
    /\ mosipCalls'[i].request # NoMosipRequest
    /\ (i <= Len(mosipCalls) => mosipCalls[i].request = NoMosipRequest)

\* Invocation i ends in the catch block in this step.
FailsNow(i) ==
    /\ i <= Len(mosipCalls)
    /\ mosipCalls[i].outcome = ""
    /\ mosipCalls'[i].outcome = "failed"

\* A name, address or DOB document is selected and has an entry in reviewResults.
SomeDocumentReady ==
    /\ reviewResults # 0
    /\ \E k \in {"name", "address", "dob"} :
          selectedDocs[k] # "" /\ ObjHas(submits[reviewResults].results, k)

\* C33: an integrate request is sent only by an invocation whose connection
\* test has succeeded, and only when a name, address or DOB document is
\* both selected and present in reviewResults; with reviewResults null a
\* click starts no invocation, sends nothing and leaves the view; an
\* invocation that fails shows the registration-failed message with the
\* loading indicator hidden, and has sent no integrate request unless it is
\* the integrate request that failed.
C33_IntegrateGuarded ==
    [][ /\ \A i \in 1..MaxCalls :
              RequestSent(i) =>
                  /\ i <= Len(mosipCalls)
                  /\ mosipCalls[i].pc = "testing"
                  /\ mosipCalls'[i].test = "ok"
                  /\ SomeDocumentReady
        /\ reviewResults = 0 =>
              /\ mosipVars' = mosipVars
              /\ alertMsg' = ProcessFirst => view' = view
        /\ \A i \in 1..MaxCalls :
              FailsNow(i) =>
                  /\ mosipResult'.kind = "danger"
                  /\ ~mosipLoading'
                  /\ mosipCalls[i].pc = "testing" => mosipCalls'[i].request = NoMosipRequest
      ]_vars

\* An invocation has sent its integrate request for the selected name
\* document after a successful test, the request has been refused, and the
\* message is shown with the indicator hidden.
C33_Witness ==
    \E i \in 1..Len(mosipCalls) :
        /\ mosipCalls[i].outcome = "failed"
        /\ mosipCalls[i].test = "ok"
        /\ mosipCalls[i].request = [file |-> selectedDocs["name"], type |-> "POI"]
        /\ selectedDocs["name"] # ""
        /\ ObjHas(submits[reviewResults].results, "name")
        /\ mosipResult = Failed(RegistrationFailed)
        /\ ~mosipLoading
        /\ view = "mosip"

\* C33 as stated: no invocation that has failed has sent an integrate request.
C33_NoRequestWhenFailed ==
    \A i \in 1..Len(mosipCalls) :
        mosipCalls[i].outcome = "failed" => mosipCalls[i].request = NoMosipRequest

====
